---- MODULE Spec2Model ----
(***************************************************************************)
(* A model of the groufix render graph (src/groufix/core/graph.c), the     *)
(* dependency injection protocol, the virtual frame deque and the resource *)
(* reference resolution (src/groufix/core/ref.c).                          *)
(***************************************************************************)
EXTENDS Integers, Sequences, FiniteSets, TLC

(***************************************************************************)
(* Bounds of the model.                                                    *)
(***************************************************************************)
\* Most passes a graph holds when only passes are added (SpecTopo).
MaxPasses == 5

\* Most passes a graph holds when it is also warmed, built and rebuilt (SpecGraph).
GraphPasses == 3

\* Most sync objects a dependency's sync vector holds.
MaxSyncs == 1

\* The dependency's waitCapacity: catches a used sync object outlives.
WaitCapacity == 1

\* The renderer's numFrames: the virtual frames of the deque.
NumFrames == 2

\* Most handles pushed as stale over a run.
MaxStales == 2

\* Largest offset of a reference given to resolve.
MaxRefOffset == 2

\* Most passes of the graph in SpecRecreate.
RecreatePasses == 2

\* Most records in the format table of the device.
MaxFormats == 3

(***************************************************************************)
(* Small helpers.                                                          *)
(***************************************************************************)
SeqToSet(s) == {s[i] : i \in 1..Len(s)}

MaxOf(S) == CHOOSE x \in S : \A y \in S : y <= x

(***************************************************************************)
(* RENDER GRAPH                                                            *)
(***************************************************************************)
VARIABLES
    passes,   \* renderer->graph.passes: sequence of pass ids, submission order
    sinks,    \* renderer->graph.sinks: sequence of pass ids
    gstate,   \* renderer->graph.state
    pass,     \* the GFXPass objects, indexed by pass id
    glast,    \* history: the last graph operation and what it found
    gedit     \* history: the last add_pass, until the next warmup/build

gvars == <<passes, sinks, gstate, pass, glast, gedit>>

\* The graph state enumeration, in its declared order.
GRAPH_EMPTY == 0
GRAPH_INVALID == 1
GRAPH_VALIDATED == 2
GRAPH_WARMED == 3
GRAPH_BUILT == 4

\* build.backing of a pass that writes to no window (SIZE_MAX in the source).
NoBacking == -1

\* Attachment indices of the renderer; the passes write to window 0 or to none.
AttachIdx == {0, 1}

\* What _gfx_pass_build comes to for a pass it fails on.
BuildFails == -2

\* build.backing after a successful build: the window attachment the pass
\* writes to.  The passes added first, third, ... write to window 0, the
\* others to no window.
PassWindow(i) == IF i % 2 = 1 THEN 0 ELSE NoBacking

\* _gfx_create_pass: the level is one more than the highest parent level.
PassLevel(P, parents) == 1 + MaxOf({P[q].level : q \in parents} \cup {0})

\* _gfx_create_pass: a fresh pass, nothing consumed, nothing built.
NewPass(P, parents) ==
    [level |-> PassLevel(P, parents), order |-> 0, parents |-> parents,
     backing |-> NoBacking,
     warm |-> FALSE, built |-> FALSE]

\* _gfx_pass_destruct: all backend objects of the pass are gone.
PassDestruct(r) == [r EXCEPT !.backing = NoBacking, !.warm = FALSE, !.built = FALSE]

\* _gfx_pass_warmup: on success the backend render pass exists.
PassWarmup(r, ok) == IF ok THEN [r EXCEPT !.warm = TRUE] ELSE r

\* _gfx_pass_build: on success the render pass and the framebuffers exist and
\* build.backing is the window w picked from the consume list (NoBacking when
\* the pass writes to no window); on failure the pass is destructed.
PassBuild(r, w) ==
    IF w # BuildFails THEN [r EXCEPT !.warm = TRUE, !.built = TRUE, !.backing = w]
    ELSE PassDestruct(r)

\* A plausible slip: the search stops one element early.
FindLocOffByOne(ps, P, loc, lvl) ==
    IF loc > 0 THEN loc - 1 ELSE 0

\* A plausible slip: the search also passes over the passes of equal level.
RECURSIVE FindLocStrict(_, _, _, _)
FindLocStrict(ps, P, loc, lvl) ==
    IF loc > 0 /\ ~(P[ps[loc]].level < lvl)
    THEN FindLocStrict(ps, P, loc - 1, lvl)
    ELSE loc

\* gfx_renderer_add_pass, the backwards linear search for the insert position:
\* the number of elements in front of the new pass.
RECURSIVE FindLoc(_, _, _, _)
FindLoc(ps, P, loc, lvl) ==
    IF loc > 0 /\ ~(P[ps[loc]].level <= lvl)
    THEN FindLoc(ps, P, loc - 1, lvl)
    ELSE loc

\* gfx_vec_insert of one element at position loc (0-based).
VecInsert(s, e, loc) == SubSeq(s, 1, loc) \o <<e>> \o SubSeq(s, loc + 1, Len(s))

\* A plausible slip: the loop stops at t > 1 and never looks at the first sink.
EraseParentSinksSkipFirst(sk, parents) ==
    LET n == Len(sk)
        keep(i) == i = n \/ i = 1 \/ sk[i] \notin parents
        RECURSIVE Go(_)
        Go(i) == IF i > n THEN <<>>
                 ELSE (IF keep(i) THEN <<sk[i]>> ELSE <<>>) \o Go(i + 1)
    IN Go(1)

\* gfx_renderer_add_pass, the loop over the sinks: every sink but the last
\* (the new pass) is erased when it is one of the parents.
EraseParentSinks(sk, parents) ==
    LET n == Len(sk)
        keep(i) == i = n \/ sk[i] \notin parents
        RECURSIVE Go(_)
        Go(i) == IF i > n THEN <<>>
                 ELSE (IF keep(i) THEN <<sk[i]>> ELSE <<>>) \o Go(i + 1)
    IN Go(1)

\* A plausible slip: a graph that was edited is always just set to empty.
StateAfterAddNoPurge(st, size) == GRAPH_EMPTY

\* A plausible slip: the state found is not looked at.
StateAfterAddAnyState(st, size) ==
    IF size > 1 THEN GRAPH_INVALID ELSE GRAPH_EMPTY

\* A plausible slip: the two outcomes of the size test are swapped.
StateAfterAddSwapped(st, size) ==
    IF st # GRAPH_EMPTY
    THEN (IF size > 1 THEN GRAPH_EMPTY ELSE GRAPH_INVALID)
    ELSE st

\* gfx_renderer_add_pass, the state after a pass was added.
StateAfterAdd(st, size) ==
    IF st # GRAPH_EMPTY
    THEN (IF size > 1 THEN GRAPH_INVALID ELSE GRAPH_EMPTY)
    ELSE st

\* _gfx_render_graph_init
GraphInit ==
    /\ passes = <<>>
    /\ sinks = <<>>
    /\ gstate = GRAPH_BUILT
    /\ pass = <<>>
    /\ glast = [op |-> "init", ok |-> TRUE, inval |-> FALSE, trace |-> <<>>,
                arg |-> <<>>]
    /\ gedit = [active |-> FALSE, pempty |-> FALSE, phad |-> FALSE]

\* inval: the operation is a build that follows an invalidate.
\* trace: the calls the operation made on passes, in the order it made them.
\* arg: the attachment index and the flags given to rebuild and destruct.
Last(op, ok) ==
    [op |-> op, ok |-> ok, inval |-> FALSE, trace |-> <<>>,
                arg |-> <<>>]

\* One call of an operation: _gfx_pass_destruct, _gfx_pass_warmup or
\* _gfx_pass_build on pass id with flags, or _gfx_render_graph_analyze (no
\* pass, id 0).
Ev(call, id, flags) == [call |-> call, pass |-> id, flags |-> flags]

\* A loop over the pass vector ps that makes the call on the passes of S.
CallsOn(call, ps, S, flags) ==
    LET hit == SelectSeq(ps, LAMBDA id : id \in S)
    IN [k \in 1..Len(hit) |-> Ev(call, hit[k], flags)]

\* The head of warmup and build in state st: a purge when INVALID, then the
\* analysis unless the graph is validated already.
PrepareTrace(st, ps) ==
    (IF st = GRAPH_INVALID THEN CallsOn("destruct", ps, 1..Len(ps), {})
     ELSE <<>>)
    \o (IF st < GRAPH_VALIDATED THEN <<Ev("analyze", 0, {})>> ELSE <<>>)

\* gfx_renderer_add_pass, the successful path.
AddPass(parents) ==
    /\ Len(pass) < MaxPasses
    /\ LET id == Len(pass) + 1
           new == NewPass(pass, parents)
           P2 == Append(pass, new)
           sk == Append(sinks, id)
           loc == FindLoc(passes, pass, Len(passes), new.level)
           ps == VecInsert(passes, id, loc)
       IN /\ pass' = P2
          /\ passes' = ps
          /\ sinks' = EraseParentSinks(sk, parents)
          /\ gstate' = StateAfterAdd(gstate, Len(ps))
    /\ glast' = Last("add_pass", TRUE)
    /\ gedit' = [active |-> TRUE, pempty |-> gstate = GRAPH_EMPTY,
                  phad |-> Len(passes) > 0]

\* The calls of gfx_renderer_add_pass that can fail.
AddPassSteps == {"create", "push", "insert"}

\* gfx_vec_pop of n elements.
VecPop(s, n) == SubSeq(s, 1, Len(s) - n)

\* A plausible slip: the sink pushed is left behind when the insert fails.
AddFailSinksNoPop(sk, id, step) ==
    IF step = "insert" THEN Append(sk, id) ELSE sk

\* gfx_renderer_add_pass, the sinks it leaves when the call at step fails:
\* nothing was pushed yet, or the push failed, or the push is popped again.
AddFailSinks(sk, id, step) ==
    IF step = "insert" THEN VecPop(Append(sk, id), 1) ELSE sk

\* gfx_renderer_add_pass, a failure of _gfx_create_pass, of the sink push or
\* of the insert: the new pass, if created, is destroyed.
AddPassFail(step) ==
    /\ Len(pass) < MaxPasses
    /\ sinks' = AddFailSinks(sinks, Len(pass) + 1, step)
    /\ glast' = Last("add_pass", FALSE)
    /\ UNCHANGED <<passes, gstate, pass, gedit>>

\* A plausible slip: the purge only sets the state.
PurgeNone(P) == P

\* _gfx_render_graph_purge
Purge(P) == [i \in 1..Len(P) |-> PassDestruct(P[i])]

\* _gfx_render_graph_analyze
Analyze(st) == GRAPH_VALIDATED

\* A plausible slip: the failure is reported before anything was analyzed,
\* leaving the purged graph empty.
WarmupStateNoAnalyze(st, failed) ==
    IF st >= GRAPH_WARMED THEN st
    ELSE IF failed > 0 THEN (IF st = GRAPH_INVALID THEN GRAPH_EMPTY ELSE st)
    ELSE GRAPH_WARMED

\* A plausible slip: only a built graph counts as warmed up.
WarmupDoneBuiltOnly(st) == st = GRAPH_BUILT

\* _gfx_render_graph_warmup, "Already done".
WarmupDone(st) == st >= GRAPH_WARMED

\* _gfx_render_graph_build, "Already done".
BuildDone(st) == st = GRAPH_BUILT

\* _gfx_render_graph_warmup, the state it leaves: st is the state it finds,
\* failed the number of passes that fail to warm up.
WarmupState(st, failed) ==
    IF WarmupDone(st) THEN st
    ELSE LET s1 == IF st = GRAPH_INVALID THEN GRAPH_EMPTY ELSE st
             s2 == IF s1 < GRAPH_VALIDATED THEN Analyze(s1) ELSE s1
         IN IF failed > 0 THEN s2 ELSE GRAPH_WARMED

\* A plausible slip: warmup numbers the passes as build does.
WarmupOrderDense(r, ps, id) ==
    (CHOOSE i \in 1..Len(ps) : ps[i] = id) - 1

\* _gfx_render_graph_warmup, the order of pass id with fields r after the
\* loop over the pass vector ps: the loop does not assign it.
WarmupOrder(r, ps, id) == r.order

\* The passes _gfx_render_graph_warmup calls _gfx_pass_warmup on.
WarmupCalls == IF WarmupDone(gstate) THEN {} ELSE 1..Len(pass)

\* _gfx_render_graph_warmup; F is the set of passes whose warmup fails.
Warmup(F) ==
    /\ IF WarmupDone(gstate)
       THEN UNCHANGED pass
       ELSE LET P1 == IF gstate = GRAPH_INVALID THEN Purge(pass) ELSE pass
            IN pass' = [i \in 1..Len(P1) |->
                          [PassWarmup(P1[i], i \notin F)
                             EXCEPT !.order = WarmupOrder(P1[i], passes, i)]]
    /\ gstate' = WarmupState(gstate, Cardinality(F))
    /\ glast' = [Last("warmup", F = {}) EXCEPT !.trace =
                    IF WarmupDone(gstate) THEN <<>>
                    ELSE PrepareTrace(gstate, passes)
                         \o CallsOn("warmup", passes, WarmupCalls, {})]
    /\ gedit' = [gedit EXCEPT !.active = FALSE]
    /\ UNCHANGED <<passes, sinks>>

\* A plausible slip: the passes are numbered as they were created.
IndexOfCreation(ps, id) == id - 1

\* The position (0-based) of pass id in the pass vector.
IndexOf(ps, id) == (CHOOSE i \in 1..Len(ps) : ps[i] = id) - 1

\* _gfx_render_graph_build, the state it leaves.
BuildState(st, failed) ==
    IF BuildDone(st) THEN st
    ELSE LET s1 == IF st = GRAPH_INVALID THEN GRAPH_EMPTY ELSE st
             s2 == IF s1 < GRAPH_VALIDATED THEN Analyze(s1) ELSE s1
         IN IF failed > 0 THEN s2 ELSE GRAPH_BUILT

\* The passes that fail under the outcomes W.
Failed(W) == {i \in DOMAIN W : W[i] = BuildFails}

\* The passes _gfx_render_graph_build calls _gfx_pass_build on.
BuildCalls == IF BuildDone(gstate) THEN {} ELSE 1..Len(pass)

\* A plausible slip: the backing of the passes is not looked at.
RebuildCallsAll(index) ==
    IF gstate < GRAPH_WARMED THEN {} ELSE 1..Len(pass)

\* The passes _gfx_render_graph_rebuild calls _gfx_pass_build on.
RebuildCalls(index) ==
    IF gstate < GRAPH_WARMED THEN {}
    ELSE {i \in 1..Len(pass) : pass[i].backing = index}

\* _gfx_render_graph_build; W[i] is what _gfx_pass_build comes to for pass i.
Build(W) ==
    /\ IF BuildDone(gstate)
       THEN UNCHANGED pass
       ELSE LET P1 == IF gstate = GRAPH_INVALID THEN Purge(pass) ELSE pass
            IN pass' = [i \in 1..Len(P1) |->
                          [PassBuild(P1[i], W[i])
                             EXCEPT !.order = IndexOf(passes, i)]]
    /\ gstate' = BuildState(gstate, Cardinality(Failed(W)))
    /\ glast' = [Last("build", Failed(W) = {})
                    EXCEPT !.inval = glast.op = "invalidate",
                           !.trace =
                               IF BuildDone(gstate) THEN <<>>
                               ELSE PrepareTrace(gstate, passes)
                                    \o CallsOn("build", passes, BuildCalls, {})]
    /\ gedit' = [gedit EXCEPT !.active = FALSE]
    /\ UNCHANGED <<passes, sinks>>

\* A plausible slip: a failure marks the graph for a purge.
RebuildStateInvalid(st, failed) ==
    IF failed > 0 THEN GRAPH_INVALID ELSE st

\* _gfx_render_graph_rebuild, the state it leaves when it found st, WARMED or
\* BUILT, and failed passes failed to build.
RebuildState(st, failed) ==
    IF failed > 0 THEN GRAPH_VALIDATED ELSE st

\* The flags _gfx_render_graph_rebuild is called with: all hold _GFX_RECREATE.
RebuildFlags == {{"RECREATE"}, {"RECREATE", "RESIZE"}}

\* _gfx_render_graph_rebuild; W[i] is what _gfx_pass_build comes to for pass i.
Rebuild(index, flags, W) ==
    /\ IF gstate < GRAPH_WARMED
       THEN UNCHANGED <<pass, gstate>>
       ELSE LET M == RebuildCalls(index)
            IN /\ pass' = [i \in 1..Len(pass) |->
                             IF i \in M THEN PassBuild(pass[i], W[i])
                             ELSE pass[i]]
               /\ gstate' = RebuildState(gstate, Cardinality(Failed(W)))
    /\ glast' = [Last("rebuild", TRUE) EXCEPT
                    !.trace = CallsOn("build", passes, RebuildCalls(index), flags),
                    !.arg = <<index, flags>>]
    /\ UNCHANGED <<passes, sinks, gedit>>

\* The passes _gfx_render_graph_destruct calls _gfx_pass_destruct on.
DestructCalls(index) == {i \in 1..Len(pass) : pass[i].backing = index}

\* A plausible slip: the state is lowered outside the test of the backing.
DestructStateAlways(st, matched) ==
    IF st >= GRAPH_WARMED THEN GRAPH_VALIDATED ELSE st

\* _gfx_render_graph_destruct, the state it leaves when it found st and
\* destructed matched passes.
DestructState(st, matched) ==
    IF matched > 0 /\ st >= GRAPH_WARMED THEN GRAPH_VALIDATED ELSE st

\* _gfx_render_graph_destruct
Destruct(index) ==
    /\ LET M == DestructCalls(index)
       IN /\ pass' = [i \in 1..Len(pass) |->
                        IF i \in M THEN PassDestruct(pass[i]) ELSE pass[i]]
          /\ gstate' = DestructState(gstate, Cardinality(M))
    /\ glast' = [Last("destruct", TRUE) EXCEPT
                    !.trace = CallsOn("destruct", passes, DestructCalls(index), {}),
                    !.arg = <<index, {}>>]
    /\ UNCHANGED <<passes, sinks, gedit>>

\* A plausible slip: the passes are destroyed from the front.
ClearOrderForward(ps) == ps

\* _gfx_render_graph_clear, the passes in the order in which they are
\* destroyed: from the back of the pass vector.
ClearOrder(ps) == [k \in 1..Len(ps) |-> ps[Len(ps) + 1 - k]]

\* _gfx_render_graph_clear: every pass is destroyed, both vectors are
\* cleared; the state is not touched.
Clear ==
    /\ passes' = <<>>
    /\ sinks' = <<>>
    /\ pass' = <<>>
    /\ glast' = [Last("clear", TRUE) EXCEPT !.trace =
                    [k \in 1..Len(passes) |->
                        Ev("destroy", ClearOrder(passes)[k], {})]]
    /\ gedit' = [gedit EXCEPT !.active = FALSE]
    /\ UNCHANGED gstate

\* A plausible slip: the state found is not looked at.
InvalidateStateAlways(st) == GRAPH_INVALID

\* _gfx_render_graph_invalidate, the state it leaves.
InvalidateState(st) == IF st # GRAPH_EMPTY THEN GRAPH_INVALID ELSE st

\* _gfx_render_graph_invalidate
Invalidate ==
    /\ gstate' = InvalidateState(gstate)
    /\ glast' = Last("invalidate", TRUE)
    /\ UNCHANGED <<passes, sinks, pass, gedit>>

(***************************************************************************)
(* DEPENDENCY INJECTION                                                    *)
(***************************************************************************)
VARIABLES
    syncs,    \* GFXDependency.syncs: the sync objects of one dependency
    inj,      \* the _GFXInjection objects: whether in use, out.waits, out.sigs
    dlast     \* history: the last dependency call and the barriers it recorded

dvars == <<syncs, inj, dlast>>

\* A NULL object pointer.
Null == "null"

\* _GFXUnpackRef
UnpackRef(b, i, r, v) == [buffer |-> b, image |-> i, renderer |-> r, value |-> v]

\* A plausible slip: the value is compared for every kind of reference.
UnpackRefIsEqualValue(refa, refb) ==
    /\ refa.value = refb.value
    /\ \/ (refa.buffer # Null /\ refa.buffer = refb.buffer)
       \/ (refa.image # Null /\ refa.image = refb.image)
       \/ (refa.renderer # Null /\ refa.renderer = refb.renderer)

\* A plausible slip: the buffers are only tested for being there.
UnpackRefIsEqualNoIdentity(refa, refb) ==
    \/ (refa.buffer # Null /\ refb.buffer # Null)
    \/ (refa.image # Null /\ refa.image = refb.image)
    \/ (refa.renderer # Null /\ refa.value = refb.value
            /\ refa.renderer = refb.renderer)

\* A plausible slip: attachments of one renderer are not told apart.
UnpackRefIsEqualAnyIndex(refa, refb) ==
    \/ (refa.buffer # Null /\ refa.buffer = refb.buffer)
    \/ (refa.image # Null /\ refa.image = refb.image)
    \/ (refa.renderer # Null /\ refa.renderer = refb.renderer)

\* _GFX_UNPACK_REF_IS_EQUAL
UnpackRefIsEqual(refa, refb) ==
    \/ (refa.buffer # Null /\ refa.buffer = refb.buffer)
    \/ (refa.image # Null /\ refa.image = refb.image)
    \/ (refa.renderer # Null /\ refa.value = refb.value
            /\ refa.renderer = refb.renderer)

Bit(mask, b, out) == IF b \in mask THEN out ELSE {}

\* A plausible slip: the table maps a transfer write to the read bit.
GetVkAccessFlagsSlip(mask, ds) ==
    Bit(mask, "VERTEX_READ", {"VK_ACCESS_VERTEX_ATTRIBUTE_READ"})
    \cup Bit(mask, "TRANSFER_READ", {"VK_ACCESS_TRANSFER_READ"})
    \cup Bit(mask, "TRANSFER_WRITE", {"VK_ACCESS_TRANSFER_READ"})
    \cup Bit(mask, "HOST_READ", {"VK_ACCESS_HOST_READ"})
    \cup Bit(mask, "HOST_WRITE", {"VK_ACCESS_HOST_WRITE"})

\* _GFX_GET_VK_ACCESS_FLAGS; ds: the format has a depth or stencil component.
GetVkAccessFlags(mask, ds) ==
    Bit(mask, "VERTEX_READ", {"VK_ACCESS_VERTEX_ATTRIBUTE_READ"})
    \cup Bit(mask, "INDEX_READ", {"VK_ACCESS_INDEX_READ"})
    \cup Bit(mask, "UNIFORM_READ", {"VK_ACCESS_UNIFORM_READ"})
    \cup Bit(mask, "INDIRECT_READ", {"VK_ACCESS_INDIRECT_COMMAND_READ"})
    \cup Bit(mask, "SAMPLED_READ", {"VK_ACCESS_SHADER_READ"})
    \cup Bit(mask, "STORAGE_READ", {"VK_ACCESS_SHADER_READ"})
    \cup Bit(mask, "STORAGE_WRITE", {"VK_ACCESS_SHADER_WRITE"})
    \cup Bit(mask, "ATTACHMENT_INPUT", {"VK_ACCESS_INPUT_ATTACHMENT_READ"})
    \cup Bit(mask, "ATTACHMENT_READ",
             IF ds THEN {"VK_ACCESS_DEPTH_STENCIL_ATTACHMENT_READ"}
             ELSE {"VK_ACCESS_COLOR_ATTACHMENT_READ"})
    \cup Bit(mask, "ATTACHMENT_WRITE",
             IF ds THEN {"VK_ACCESS_DEPTH_STENCIL_ATTACHMENT_WRITE"}
             ELSE {"VK_ACCESS_COLOR_ATTACHMENT_WRITE"})
    \cup Bit(mask, "TRANSFER_READ", {"VK_ACCESS_TRANSFER_READ"})
    \cup Bit(mask, "TRANSFER_WRITE", {"VK_ACCESS_TRANSFER_WRITE"})
    \cup Bit(mask, "HOST_READ", {"VK_ACCESS_HOST_READ"})
    \cup Bit(mask, "HOST_WRITE", {"VK_ACCESS_HOST_WRITE"})

\* The six shader stages of GFXShaderStage, and the pipeline stage of each.
ShaderStages ==
    {"VERTEX", "TESS_CONTROL", "TESS_EVALUATION", "GEOMETRY", "FRAGMENT", "COMPUTE"}

ShaderPipelineStage(st) ==
    CASE st = "VERTEX" -> "VK_PIPELINE_STAGE_VERTEX_SHADER"
      [] st = "TESS_CONTROL" -> "VK_PIPELINE_STAGE_TESSELLATION_CONTROL_SHADER"
      [] st = "TESS_EVALUATION" -> "VK_PIPELINE_STAGE_TESSELLATION_EVALUATION_SHADER"
      [] st = "GEOMETRY" -> "VK_PIPELINE_STAGE_GEOMETRY_SHADER"
      [] st = "FRAGMENT" -> "VK_PIPELINE_STAGE_FRAGMENT_SHADER"
      [] st = "COMPUTE" -> "VK_PIPELINE_STAGE_COMPUTE_SHADER"

\* A plausible slip: without a hint no shader stage is taken.
HintedStagesNoDefault(stage) == stage \cap ShaderStages

\* _GFX_GET_VK_PIPELINE_STAGE, the shader stages a hint stands for:
\* `(stage) == 0 || ((stage) & GFX_STAGE_x)` for each of the six.
HintedStages(stage) == {x \in ShaderStages : stage = {} \/ x \in stage}

\* _GFX_GET_VK_PIPELINE_STAGE; stage is the shader stage hint (a set, empty = 0).
GetVkPipelineStage(mask, stage, ds) ==
    Bit(mask, "VERTEX_READ", {"VK_PIPELINE_STAGE_VERTEX_INPUT"})
    \cup Bit(mask, "INDEX_READ", {"VK_PIPELINE_STAGE_VERTEX_INPUT"})
    \cup Bit(mask, "INDIRECT_READ", {"VK_PIPELINE_STAGE_DRAW_INDIRECT"})
    \cup (IF mask \cap {"UNIFORM_READ", "SAMPLED_READ", "STORAGE_READ",
                        "STORAGE_WRITE"} # {}
          THEN {ShaderPipelineStage(st) : st \in HintedStages(stage)}
          ELSE {})
    \cup Bit(mask, "ATTACHMENT_INPUT", {"VK_PIPELINE_STAGE_FRAGMENT_SHADER"})
    \cup (IF mask \cap {"ATTACHMENT_READ", "ATTACHMENT_WRITE"} # {}
          THEN (IF ds THEN {"VK_PIPELINE_STAGE_EARLY_FRAGMENT_TESTS",
                            "VK_PIPELINE_STAGE_LATE_FRAGMENT_TESTS"}
                ELSE {"VK_PIPELINE_STAGE_COLOR_ATTACHMENT_OUTPUT"})
          ELSE {})
    \cup Bit(mask, "TRANSFER_READ", {"VK_PIPELINE_STAGE_TRANSFER"})
    \cup Bit(mask, "TRANSFER_WRITE", {"VK_PIPELINE_STAGE_TRANSFER"})
    \cup Bit(mask, "HOST_READ", {"VK_PIPELINE_STAGE_HOST"})
    \cup Bit(mask, "HOST_WRITE", {"VK_PIPELINE_STAGE_HOST"})

\* The bits of GFXAccessMask that name no access but modify the operation.
AccessModifiers == {"COMPUTE_ASYNC", "TRANSFER_ASYNC", "DISCARD"}

\* A plausible slip: the modifier bits are not masked out.
OnlyAccessesExact(mask, allowed) == mask \subseteq allowed

\* _GFX_GET_VK_IMAGE_LAYOUT, each test `!(mask & ~(allowed | COMPUTE_ASYNC |
\* TRANSFER_ASYNC | DISCARD))`.
OnlyAccesses(mask, allowed) == mask \subseteq (allowed \cup AccessModifiers)

\* _GFX_GET_VK_IMAGE_LAYOUT; ds: the format has a depth or stencil component.
GetVkImageLayout(mask, ds) ==
    IF mask = {} THEN "VK_IMAGE_LAYOUT_UNDEFINED"
    ELSE IF OnlyAccesses(mask, {"TRANSFER_READ"})
    THEN "VK_IMAGE_LAYOUT_TRANSFER_SRC_OPTIMAL"
    ELSE IF OnlyAccesses(mask, {"TRANSFER_WRITE"})
    THEN "VK_IMAGE_LAYOUT_TRANSFER_DST_OPTIMAL"
    ELSE IF ds
    THEN (IF OnlyAccesses(mask, {"SAMPLED_READ", "ATTACHMENT_INPUT",
                                 "ATTACHMENT_READ"})
          THEN "VK_IMAGE_LAYOUT_DEPTH_STENCIL_READ_ONLY_OPTIMAL"
          ELSE IF OnlyAccesses(mask, {"ATTACHMENT_READ", "ATTACHMENT_WRITE"})
          THEN "VK_IMAGE_LAYOUT_DEPTH_STENCIL_ATTACHMENT_OPTIMAL"
          ELSE "VK_IMAGE_LAYOUT_GENERAL")
    ELSE (IF OnlyAccesses(mask, {"SAMPLED_READ", "ATTACHMENT_INPUT"})
          THEN "VK_IMAGE_LAYOUT_SHADER_READ_ONLY_OPTIMAL"
          ELSE IF OnlyAccesses(mask, {"ATTACHMENT_READ", "ATTACHMENT_WRITE"})
          THEN "VK_IMAGE_LAYOUT_COLOR_ATTACHMENT_OPTIMAL"
          ELSE "VK_IMAGE_LAYOUT_GENERAL")

\* The resources of the model: two buffers of BufferSize bytes, two images of
\* ImageMips mipmaps and ImageLayers layers each.
BufferSize == 4
ImageMips == 2
ImageLayers == 2

\* GFXRange of a buffer and of an image.
BufRange(offset, size) == [offset |-> offset, size |-> size]
ImgRange(aspect, mipmap, numMipmaps, layer, numLayers) ==
    [aspect |-> aspect, mipmap |-> mipmap, numMipmaps |-> numMipmaps,
     layer |-> layer, numLayers |-> numLayers]

\* _GFXSync.range: the range unpacked, i.e. the offset counted from the start
\* of the resource and every size of 0 replaced by what remains.
NormalizeRange(ref, range) ==
    IF ref.buffer # Null
    THEN [offset |-> ref.value + range.offset,
          size |-> IF range.size = 0
                   THEN BufferSize - (ref.value + range.offset)
                   ELSE range.size]
    ELSE [aspect |-> range.aspect,
          mipmap |-> range.mipmap,
          numMipmaps |-> IF range.numMipmaps = 0
                         THEN ImageMips - range.mipmap ELSE range.numMipmaps,
          layer |-> range.layer,
          numLayers |-> IF range.numLayers = 0
                        THEN ImageLayers - range.layer ELSE range.numLayers]

\* Range intersection of two unpacked ranges of the same resource.
RangesOverlap(ref, a, b) ==
    IF ref.buffer # Null
    THEN a.offset < b.offset + b.size /\ b.offset < a.offset + a.size
    ELSE /\ a.mipmap < b.mipmap + b.numMipmaps
         /\ b.mipmap < a.mipmap + a.numMipmaps
         /\ a.layer < b.layer + b.numLayers
         /\ b.layer < a.layer + a.numLayers
         /\ a.aspect \cap b.aspect # {}

\* The stages of a sync object.
SYNC_UNUSED == "UNUSED"
SYNC_PREPARE == "PREPARE"
SYNC_PREPARE_CATCH == "PREPARE_CATCH"
SYNC_PENDING == "PENDING"
SYNC_CATCH == "CATCH"
SYNC_USED == "USED"

\* No injection claims the sync object.
NoInj == 0

\* The injection metadata objects operations pass around.
Injs == {1, 2}

\* _GFXSync in stage _GFX_SYNC_UNUSED: the other fields are never read.
UnusedSync ==
    [ref |-> UnpackRef(Null, Null, Null, 0), range |-> BufRange(0, 0),
     waits |-> 0, inj |-> NoInj, stage |-> SYNC_UNUSED, sem |-> FALSE,
     srcAccess |-> {}, srcStage |-> {}]

\* _gfx_injection
EmptyInjection == [open |-> FALSE, waits |-> <<>>, sigs |-> <<>>]

\* What an operation signals: a resource, a range of it and its own access.
SigInputs ==
    {[ref |-> UnpackRef("B1", Null, Null, 0), range |-> BufRange(0, 2),
      mask |-> {"TRANSFER_WRITE"}],
     [ref |-> UnpackRef(Null, "I1", Null, 0), range |-> ImgRange({"COLOR"}, 0, 1, 0, 0),
      mask |-> {"HOST_WRITE"}],
     [ref |-> UnpackRef(Null, "I1", Null, 0), range |-> ImgRange({"COLOR"}, 0, 0, 0, 1),
      mask |-> {"TRANSFER_WRITE"}]}

\* What an operation waits for: a resource, a range of it and its own access.
WaitInputs ==
    {[ref |-> UnpackRef("B1", Null, Null, 0), range |-> BufRange(2, 0),
      mask |-> {"VERTEX_READ"}],
     [ref |-> UnpackRef("B1", Null, Null, 1), range |-> BufRange(0, 2),
      mask |-> {"TRANSFER_READ"}],
     [ref |-> UnpackRef("B2", Null, Null, 0), range |-> BufRange(0, 2),
      mask |-> {"VERTEX_READ"}],
     [ref |-> UnpackRef(Null, "I1", Null, 0), range |-> ImgRange({"COLOR"}, 0, 1, 0, 0),
      mask |-> {"TRANSFER_READ"}],
     [ref |-> UnpackRef(Null, "I1", Null, 0), range |-> ImgRange({"COLOR"}, 1, 0, 0, 1),
      mask |-> {"TRANSFER_READ"}],
     [ref |-> UnpackRef(Null, "I1", Null, 0), range |-> ImgRange({"COLOR"}, 0, 0, 1, 1),
      mask |-> {"TRANSFER_READ"}],
     [ref |-> UnpackRef(Null, "I1", Null, 0), range |-> ImgRange({"DEPTH"}, 0, 0, 0, 0),
      mask |-> {"TRANSFER_READ"}]}

DepInit ==
    /\ syncs = <<>>
    /\ inj = [i \in Injs |-> EmptyInjection]
    /\ dlast = [op |-> "init", inj |-> NoInj, arg |-> Null, barriers |-> <<>>]

\* Whether sync object s is a signal for the resource and range a catch looks at.
SyncMatches(s, w) ==
    /\ UnpackRefIsEqual(s.ref, w.ref)
    /\ RangesOverlap(w.ref, s.range, NormalizeRange(w.ref, w.range))

\* A plausible slip: a signal another operation has caught already is caught
\* once more.
CatchesPendingOrCaught(s, i, w) ==
    s.stage \in {SYNC_PENDING, SYNC_CATCH} /\ s.inj # i /\ SyncMatches(s, w)

\* The catch of injection i sees sync object s as a signal of another, finished
\* operation.
CatchesPending(s, i, w) == s.stage = SYNC_PENDING /\ SyncMatches(s, w)

\* A plausible slip: the injection that prepared the signal is not looked at.
CatchesOwnAnyInjection(s, i, w) == s.stage = SYNC_PREPARE /\ SyncMatches(s, w)

\* The catch of injection i sees sync object s as a signal it prepared itself.
CatchesOwn(s, i, w) == s.stage = SYNC_PREPARE /\ s.inj = i /\ SyncMatches(s, w)

\* The barrier a catch records for sync object number k.
Barrier(k, s, w) ==
    [sync |-> k, srcAccess |-> s.srcAccess,
     dstAccess |-> GetVkAccessFlags(w.mask, FALSE),
     srcStage |-> s.srcStage,
     dstStage |-> GetVkPipelineStage(w.mask, {}, FALSE)]

\* The indices k..n that are in S, in the order the loop visits them.
RECURSIVE Pick(_, _, _)
Pick(k, n, S) ==
    IF k > n THEN <<>>
    ELSE (IF k \in S THEN <<k>> ELSE <<>>) \o Pick(k + 1, n, S)

\* _gfx_injection: an operation starts with fresh injection metadata.
Start(i) ==
    /\ ~inj[i].open
    /\ inj' = [inj EXCEPT ![i] = [EmptyInjection EXCEPT !.open = TRUE]]
    /\ dlast' = [op |-> "start", inj |-> i, arg |-> Null, barriers |-> <<>>]
    /\ UNCHANGED syncs

\* _gfx_deps_catch
Catch(i, w) ==
    /\ inj[i].open
    /\ LET n == Len(syncs)
           Pending(k) == CatchesPending(syncs[k], i, w)
           Own(k) == CatchesOwn(syncs[k], i, w)
           Caught(k) == Pending(k) \/ Own(k)
           Sem(k) == Pending(k) /\ syncs[k].sem
           hits == Pick(1, n, {k \in 1..n : Caught(k)})
           sems == Pick(1, n, {k \in 1..n : Sem(k)})
       IN /\ syncs' = [k \in 1..n |->
                IF Pending(k)
                THEN [syncs[k] EXCEPT !.stage = SYNC_CATCH, !.inj = i]
                ELSE IF Own(k)
                THEN [syncs[k] EXCEPT !.stage = SYNC_PREPARE_CATCH]
                ELSE IF syncs[k].stage = SYNC_USED
                THEN (IF syncs[k].waits <= 1 THEN UnusedSync
                      ELSE [syncs[k] EXCEPT !.waits = @ - 1])
                ELSE syncs[k]]
          /\ inj' = [inj EXCEPT ![i].waits = @ \o
                [x \in 1..Len(sems) |->
                    [sem |-> sems[x],
                     stage |-> GetVkPipelineStage(w.mask, {}, FALSE)]]]
          /\ dlast' = [op |-> "catch", inj |-> i, arg |-> w,
                       barriers |-> [x \in 1..Len(hits) |->
                                        Barrier(hits[x], syncs[hits[x]], w)]]

\* The sync object _gfx_deps_prepare claims: the first unused one, or a new
\* one pushed at the end of the vector (0 when the vector cannot grow).
FreeSync ==
    IF \E k \in 1..Len(syncs) : syncs[k].stage = SYNC_UNUSED
    THEN CHOOSE k \in 1..Len(syncs) :
            /\ syncs[k].stage = SYNC_UNUSED
            /\ \A j \in 1..(k - 1) : syncs[j].stage # SYNC_UNUSED
    ELSE IF Len(syncs) < MaxSyncs THEN Len(syncs) + 1 ELSE 0

\* _gfx_deps_prepare of one signal command.
Prepare(i, g, blocking) ==
    /\ inj[i].open
    /\ FreeSync # 0
    /\ LET k == FreeSync
           new == [ref |-> g.ref, range |-> NormalizeRange(g.ref, g.range),
                   waits |-> 0, inj |-> i, stage |-> SYNC_PREPARE,
                   sem |-> ~blocking,
                   srcAccess |-> GetVkAccessFlags(g.mask, FALSE),
                   srcStage |-> GetVkPipelineStage(g.mask, {}, FALSE)]
       IN /\ syncs' = IF k > Len(syncs) THEN Append(syncs, new)
                      ELSE [syncs EXCEPT ![k] = new]
          /\ inj' = IF blocking THEN inj
                    ELSE [inj EXCEPT ![i].sigs = Append(@, k)]
    /\ dlast' = [op |-> "prepare", inj |-> i, arg |-> g, barriers |-> <<>>]

\* A plausible slip: only the first sync object of the injection is reverted,
\* and only when it was not caught yet.
AbortSyncSlip(s, i) ==
    IF s.inj = i /\ s.stage = SYNC_PREPARE THEN UnusedSync ELSE s

\* _gfx_deps_abort, what it does to one sync object.
AbortSync(s, i) ==
    IF s.inj = i /\ s.stage \in {SYNC_PREPARE, SYNC_PREPARE_CATCH}
    THEN UnusedSync ELSE s

\* _gfx_deps_abort
Abort(i) ==
    /\ inj[i].open
    /\ syncs' = [k \in 1..Len(syncs) |-> AbortSync(syncs[k], i)]
    /\ inj' = [inj EXCEPT ![i] = EmptyInjection]
    /\ dlast' = [op |-> "abort", inj |-> i,
                 arg |-> {k \in 1..Len(syncs) : AbortSync(syncs[k], i) # syncs[k]},
                 barriers |-> <<>>]

\* A plausible slip: a signal the injection caught itself is not committed.
FinishSyncPrepareOnly(s, i) ==
    IF s.inj = i /\ s.stage = SYNC_PREPARE
    THEN [s EXCEPT !.stage = SYNC_PENDING, !.inj = NoInj]
    ELSE IF s.inj = i /\ s.stage = SYNC_CATCH
    THEN [s EXCEPT !.stage = SYNC_USED, !.inj = NoInj, !.waits = WaitCapacity]
    ELSE s

\* _gfx_deps_finish, what it does to one sync object.
FinishSync(s, i) ==
    IF s.inj = i /\ s.stage \in {SYNC_PREPARE, SYNC_PREPARE_CATCH}
    THEN [s EXCEPT !.stage = SYNC_PENDING, !.inj = NoInj]
    ELSE IF s.inj = i /\ s.stage = SYNC_CATCH
    THEN [s EXCEPT !.stage = SYNC_USED, !.inj = NoInj, !.waits = WaitCapacity]
    ELSE s

\* _gfx_deps_finish
Finish(i) ==
    /\ inj[i].open
    /\ syncs' = [k \in 1..Len(syncs) |-> FinishSync(syncs[k], i)]
    /\ inj' = [inj EXCEPT ![i] = EmptyInjection]
    /\ dlast' = [op |-> "finish", inj |-> i, arg |-> Null, barriers |-> <<>>]

(***************************************************************************)
(* THREADS ON ONE DEPENDENCY                                               *)
(***************************************************************************)
VARIABLES
    thr    \* the threads, one per injection: the barriers a thread has taken
           \* under the lock and not recorded yet, and per sync object what
           \* was taken from it since it was prepared

tvars == <<thr>>

Slots == 1..MaxSyncs

ThrInit ==
    thr = [job |-> [i \in Injs |-> {}],
           by |-> [k \in Slots |-> {}],
           sems |-> [k \in Slots |-> 0],
           bars |-> [k \in Slots |-> 0]]

\* What the threads signal and wait for: a range of one buffer, as a
\* blocking and as a semaphore signal, and an image.
ThreadSigs == {g \in SigInputs : g.ref.buffer = "B1" \/ g.mask = {"HOST_WRITE"}}
ThreadWaits ==
    {w \in WaitInputs :
        \/ (w.ref.buffer = "B1" /\ w.mask = {"TRANSFER_READ"})
        \/ (w.ref.image = "I1" /\ w.range = ImgRange({"COLOR"}, 0, 1, 0, 0))}

\* The thread of injection i is between calls.
Between(i) == thr.job[i] = {}

\* _gfx_deps_catch, the part under the lock of the dependency: the sync
\* objects are taken and the semaphores appended.
ThreadCatch(i, w) ==
    /\ Between(i)
    /\ Catch(i, w)
    /\ LET pend == {k \in DOMAIN syncs : CatchesPending(syncs[k], i, w)}
       IN thr' = [thr EXCEPT
                    !.job[i] = pend,
                    !.by = [k \in Slots |->
                              IF k \in pend THEN @[k] \cup {i} ELSE @[k]],
                    !.sems = [k \in Slots |->
                              IF k \in pend /\ syncs[k].sem THEN @[k] + 1
                              ELSE @[k]]]

\* _gfx_deps_catch, the part after the lock is released: the barriers taken
\* are recorded into the command buffer.
ThreadRecord(i) ==
    /\ ~Between(i)
    /\ thr' = [thr EXCEPT
                 !.job[i] = {},
                 !.bars = [k \in Slots |->
                             IF k \in thr.job[i] THEN @[k] + 1 ELSE @[k]]]
    /\ UNCHANGED dvars

\* _gfx_deps_prepare by a thread: the sync object claimed starts anew.
ThreadPrepare(i, g, blocking) ==
    /\ Between(i)
    /\ Prepare(i, g, blocking)
    /\ thr' = [thr EXCEPT !.by[FreeSync] = {}, !.sems[FreeSync] = 0,
                          !.bars[FreeSync] = 0]

\* _gfx_injection, _gfx_deps_abort and _gfx_deps_finish by a thread.
ThreadStart(i) == Between(i) /\ Start(i) /\ UNCHANGED tvars
ThreadAbort(i) == Between(i) /\ Abort(i) /\ UNCHANGED tvars
ThreadFinish(i) == Between(i) /\ Finish(i) /\ UNCHANGED tvars

(***************************************************************************)
(* VIRTUAL FRAME DEQUE                                                     *)
(***************************************************************************)
VARIABLES
    frames,    \* renderer->frames: the frame indices, oldest submission first
    pFrame,    \* renderer->pFrame: the public frame, NoFrame if absent
    fpc,       \* where the frame driver is: "idle", "waiting", "recreate",
               \* "acquired"
    done,      \* the done fence of each frame: "signaled" or "pending"
    stales,    \* renderer->stales: sequence of [frame, handle]
    destroyed, \* the handles destroyed so far
    attached,  \* history: the frame each pushed handle was attached to
    flast      \* history: the last frame operation and what it destroyed

fvars == <<frames, pFrame, fpc, done, stales, destroyed, attached, flast>>

\* pFrame.vk.done is VK_NULL_HANDLE: no public frame.
NoFrame == -1

FrameIdx == 0..(NumFrames - 1)

FLast(op, f, ok, killed) == [op |-> op, frame |-> f, ok |-> ok, killed |-> killed]

\* gfx_create_renderer: numFrames idle frames, no public frame, nothing stale.
FrameInit ==
    /\ frames = [k \in 1..NumFrames |-> k - 1]
    /\ pFrame = NoFrame
    /\ fpc = "idle"
    /\ done = [f \in FrameIdx |-> "signaled"]
    /\ stales = <<>>
    /\ destroyed = {}
    /\ attached = <<>>
    /\ flast = FLast("init", NoFrame, TRUE, {})

\* The frame a stale resource is attached to: the public frame while there is
\* one, else the frame submitted last.
CurrentFrame == IF pFrame # NoFrame THEN pFrame ELSE frames[Len(frames)]

\* A plausible slip: the fence of the frame is not looked at.
RetiredNoFence(f, fence) == {k \in 1..Len(stales) : stales[k].frame = f}

\* acquire, step 1: the stale entries of frame f that are retired, given the
\* state of its done fence.
Retired(f, fence) ==
    {k \in 1..Len(stales) : stales[k].frame = f /\ fence = "signaled"}

\* acquire, steps 1: the oldest frame becomes the public frame and its stale
\* entries whose fence has been signaled are destroyed and dequeued.
AcquireRetire ==
    /\ fpc = "idle"
    /\ LET f == frames[1]
           R == Retired(f, done[f])
           keep == Pick(1, Len(stales), (1..Len(stales)) \ R)
       IN /\ pFrame' = f
          /\ frames' = Tail(frames)
          /\ stales' = [x \in 1..Len(keep) |-> stales[keep[x]]]
          /\ destroyed' = destroyed \cup {stales[k].handle : k \in R}
          /\ flast' = FLast("acquire", f, done[f] = "signaled",
                            {stales[k].handle : k \in R})
    /\ fpc' = "waiting"
    /\ UNCHANGED <<done, attached>>

\* A plausible slip: the wait returns at once.
FenceWaitNoBlock(fence) == TRUE

\* The blocking wait on a fence returns: the fence has been signaled.
FenceWait(fence) == fence = "signaled"

\* acquire, steps 2 and 3: the blocking wait on the done fence of the frame
\* returns and the swapchain of window 0 is asked for an image; recreate tells
\* whether it reports OUT_OF_DATE or SUBOPTIMAL.
AcquireWait(recreate) ==
    /\ fpc = "waiting"
    /\ FenceWait(done[pFrame])
    /\ fpc' = IF recreate THEN "recreate" ELSE "acquired"
    /\ flast' = FLast(IF recreate THEN "out_of_date" ELSE "synced",
                      pFrame, TRUE, {})
    /\ UNCHANGED <<frames, pFrame, done, stales, destroyed, attached>>

\* A plausible slip: the frames of the deque are not waited for.
SyncFramesNone(fr, dn) == TRUE

\* sync_frames returns: the done fence of every frame of the deque has been
\* waited on.
SyncFrames(fr, dn) == \A k \in DOMAIN fr : FenceWait(dn[fr[k]])

\* acquire, step 3 on a recreate: every frame is synchronized, then the
\* backing of attachment index and the passes of the graph that write to it
\* are rebuilt; W[i] is what _gfx_pass_build comes to for pass i.
AcquireRecreate(index, flags, W) ==
    /\ fpc = "recreate"
    /\ SyncFrames(frames, done)
    /\ Rebuild(index, flags, W)
    /\ fpc' = "acquired"
    /\ flast' = FLast("recreate", pFrame, TRUE, {})
    /\ UNCHANGED <<frames, pFrame, done, stales, destroyed, attached>>

\* submit: the public frame is submitted, fencing on its done fence, and goes
\* back into the deque.
Submit ==
    /\ fpc = "acquired"
    /\ done' = [done EXCEPT ![pFrame] = "pending"]
    /\ frames' = Append(frames, pFrame)
    /\ pFrame' = NoFrame
    /\ fpc' = "idle"
    /\ flast' = FLast("submit", pFrame, TRUE, {})
    /\ UNCHANGED <<stales, destroyed, attached>>

\* The GPU completes the submission of frame f.
GpuDone(f) ==
    /\ done[f] = "pending"
    /\ done' = [done EXCEPT ![f] = "signaled"]
    /\ flast' = FLast("gpu", f, TRUE, {})
    /\ UNCHANGED <<frames, pFrame, fpc, stales, destroyed, attached>>

\* _gfx_push_stale, successful: the handle waits in the stale deque.
PushStale ==
    /\ fpc \in {"idle", "acquired"}
    /\ Len(attached) < MaxStales
    /\ LET h == Len(attached) + 1
       IN /\ stales' = Append(stales, [frame |-> CurrentFrame, handle |-> h])
          /\ attached' = Append(attached, CurrentFrame)
          /\ flast' = FLast("push_stale", CurrentFrame, TRUE, {})
    /\ UNCHANGED <<frames, pFrame, fpc, done, destroyed>>

\* _gfx_push_stale, the push fails: the resources are prematurely destroyed.
PushStaleFail ==
    /\ fpc \in {"idle", "acquired"}
    /\ Len(attached) < MaxStales
    /\ LET h == Len(attached) + 1
       IN /\ attached' = Append(attached, CurrentFrame)
          /\ destroyed' = destroyed \cup {h}
          /\ flast' = FLast("push_stale", CurrentFrame, FALSE, {h})
    /\ UNCHANGED <<frames, pFrame, fpc, done, stales>>

(***************************************************************************)
(* REFERENCES                                                              *)
(***************************************************************************)
VARIABLES
    rin,   \* the reference the caller passes
    rout,  \* what _gfx_ref_resolve returned for it
    rout2, \* what _gfx_ref_resolve returned for rout
    runp,  \* what _gfx_ref_unpack returned for rin
    rpc    \* "start", "resolved", "again", "unpacked"

rvars == <<rin, rout, rout2, runp, rpc>>

Ref(type, obj, offset, v0, v1) ==
    [type |-> type, obj |-> obj, offset |-> offset, values |-> <<v0, v1>>]

GFX_REF_NULL == Ref("EMPTY", Null, 0, 0, 0)

GFX_REF_IS_NULL(ref) == ref.type = "EMPTY"

\* The primitives of the heap: P1 owns its vertex and index data, P2 takes its
\* vertices from buffer B1 and has no indices, P3 has no vertices and takes its
\* indices from B2, P4 takes its vertices from B1 and owns its indices.
Primitives ==
    [P1 |-> [numVertices |-> 2, numIndices |-> 3, stride |-> 1, indexSize |-> 1,
             refVertex |-> GFX_REF_NULL, refIndex |-> GFX_REF_NULL],
     P2 |-> [numVertices |-> 2, numIndices |-> 0, stride |-> 1, indexSize |-> 0,
             refVertex |-> Ref("BUFFER", "B1", 1, 0, 0),
             refIndex |-> GFX_REF_NULL],
     P3 |-> [numVertices |-> 0, numIndices |-> 2, stride |-> 1, indexSize |-> 1,
             refVertex |-> GFX_REF_NULL,
             refIndex |-> Ref("BUFFER", "B2", 0, 0, 0)],
     P4 |-> [numVertices |-> 2, numIndices |-> 2, stride |-> 2, indexSize |-> 2,
             refVertex |-> Ref("BUFFER", "B1", 0, 0, 0),
             refIndex |-> GFX_REF_NULL]]

\* The groups of the heap.  G1.buffer is the buffer group G1 owns, of 3 bytes.  Its
\* bindings: buffers (own buffer at 1, B1 at 1), images (I1), buffers (the
\* vertices of P2 at 1, the vertices of P1 at 0), images (attachment 0 of R).
Groups ==
    [G1 |-> [numBindings |-> 4, size |-> 3,
             bindings |-> <<
                 [type |-> "BUFFER", count |-> 2,
                  refs |-> <<Ref("BUFFER", "G1.buffer", 1, 0, 0),
                             Ref("BUFFER", "B1", 1, 0, 0)>>],
                 [type |-> "IMAGE", count |-> 1,
                  refs |-> <<Ref("IMAGE", "I1", 0, 0, 0)>>],
                 [type |-> "BUFFER", count |-> 2,
                  refs |-> <<Ref("PRIMITIVE_VERTICES", "P2", 1, 0, 0),
                             Ref("PRIMITIVE_VERTICES", "P1", 0, 0, 0)>>],
                 [type |-> "IMAGE", count |-> 1,
                  refs |-> <<Ref("ATTACHMENT", "R", 0, 0, 0)>>]>>]]

\* renderer->backing.attachs of renderer R, by attachment index from 0.
Attachs == <<"ATTACH_IMAGE", "ATTACH_WINDOW", "ATTACH_EMPTY", "ATTACH_IMAGE">>

\* A plausible slip: any attachment that is not empty passes.
AttachIsNotEmpty(index) == Attachs[index + 1] # "ATTACH_EMPTY"

\* _gfx_ref_resolve, the second check of an attachment reference: the
\* attachment at the index is an image attachment.
AttachIsImage(index) == Attachs[index + 1] = "ATTACH_IMAGE"

\* The buffer a group owns, &group->buffer.
GroupBuffer(g) == g \o ".buffer"

\* A plausible slip: the reference found is returned as it is.
ResolveOnce(ref) ==
    CASE ref.type = "PRIMITIVE_VERTICES" ->
           LET p == Primitives[ref.obj]
               rec == [p.refVertex EXCEPT !.offset = @ + ref.offset]
           IN IF ~(p.numVertices > 0) THEN GFX_REF_NULL
              ELSE IF GFX_REF_IS_NULL(rec) THEN ref ELSE rec
      [] ref.type = "GROUP_BUFFER" ->
           LET g == Groups[ref.obj]
           IN IF ~(ref.values[1] < g.numBindings
                   /\ ref.values[2] < g.bindings[ref.values[1] + 1].count)
              THEN GFX_REF_NULL
              ELSE LET b == g.bindings[ref.values[1] + 1]
                       r0 == b.refs[ref.values[2] + 1]
                   IN IF b.type # "BUFFER" THEN GFX_REF_NULL
                      ELSE IF r0.obj = GroupBuffer(ref.obj) THEN ref
                      ELSE [r0 EXCEPT !.offset = @ + ref.offset]
      [] OTHER -> ref

RECURSIVE Resolve(_)
\* _gfx_ref_resolve: follows the reference to what it refers to, adding up the
\* offsets, until nothing further is referenced.
Resolve(ref) ==
    CASE ref.type = "PRIMITIVE_VERTICES" ->
           LET p == Primitives[ref.obj]
               rec == [p.refVertex EXCEPT !.offset = @ + ref.offset]
           IN IF ~(p.numVertices > 0) THEN GFX_REF_NULL
              ELSE IF GFX_REF_IS_NULL(rec) THEN ref ELSE Resolve(rec)
      [] ref.type = "PRIMITIVE_INDICES" ->
           LET p == Primitives[ref.obj]
               rec == [p.refIndex EXCEPT !.offset = @ + ref.offset]
           IN IF ~(p.numIndices > 0) THEN GFX_REF_NULL
              ELSE IF GFX_REF_IS_NULL(rec) THEN ref ELSE Resolve(rec)
      [] ref.type = "GROUP_BUFFER" ->
           LET g == Groups[ref.obj]
           IN IF ~(ref.values[1] < g.numBindings
                   /\ ref.values[2] < g.bindings[ref.values[1] + 1].count)
              THEN GFX_REF_NULL
              ELSE LET b == g.bindings[ref.values[1] + 1]
                       r0 == b.refs[ref.values[2] + 1]
                       rec == IF r0.obj = GroupBuffer(ref.obj)
                              THEN GFX_REF_NULL
                              ELSE [r0 EXCEPT !.offset = @ + ref.offset]
                   IN IF b.type # "BUFFER" THEN GFX_REF_NULL
                      ELSE IF GFX_REF_IS_NULL(rec) THEN ref ELSE Resolve(rec)
      [] ref.type = "GROUP_IMAGE" ->
           LET g == Groups[ref.obj]
           IN IF ~(ref.values[1] < g.numBindings
                   /\ ref.values[2] < g.bindings[ref.values[1] + 1].count)
              THEN GFX_REF_NULL
              ELSE LET b == g.bindings[ref.values[1] + 1]
                       rec == b.refs[ref.values[2] + 1]
                   IN IF b.type # "IMAGE" THEN GFX_REF_NULL
                      ELSE IF GFX_REF_IS_NULL(rec) THEN ref ELSE Resolve(rec)
      [] ref.type = "ATTACHMENT" ->
           IF ~(ref.values[1] < Len(Attachs)) THEN GFX_REF_NULL
           ELSE IF ~AttachIsImage(ref.values[1]) THEN GFX_REF_NULL
           ELSE ref
      [] OTHER -> ref

\* The references a caller can make with the gfx_ref_* constructors.
RefInputs ==
    {GFX_REF_NULL}
    \cup {Ref("BUFFER", b, o, 0, 0) : b \in {"B1", "B2"}, o \in 0..MaxRefOffset}
    \cup {Ref("IMAGE", "I1", 0, 0, 0)}
    \cup {Ref(t, p, o, 0, 0) :
            t \in {"PRIMITIVE_VERTICES", "PRIMITIVE_INDICES"},
            p \in DOMAIN Primitives, o \in 0..MaxRefOffset}
    \cup {Ref("GROUP_BUFFER", "G1", o, b, k) :
            o \in 0..MaxRefOffset, b \in 0..4, k \in 0..2}
    \cup {Ref("GROUP_IMAGE", "G1", 0, b, k) : b \in 0..4, k \in 0..2}
    \cup {Ref("ATTACHMENT", "R", 0, a, 0) : a \in 0..Len(Attachs)}

RefInit ==
    /\ rin \in RefInputs
    /\ rout = GFX_REF_NULL
    /\ rout2 = GFX_REF_NULL
    /\ runp = UnpackRef(Null, Null, Null, 0)
    /\ rpc = "start"

\* In the specifications that make no reference calls.
RefIdle ==
    /\ rin = GFX_REF_NULL
    /\ rout = GFX_REF_NULL
    /\ rout2 = GFX_REF_NULL
    /\ runp = UnpackRef(Null, Null, Null, 0)
    /\ rpc = "start"

\* The caller resolves its reference.
ResolveCall ==
    /\ rpc = "start"
    /\ rout' = Resolve(rin)
    /\ rpc' = "resolved"
    /\ UNCHANGED <<rin, rout2, runp>>

\* The caller resolves what the first call returned.
ResolveAgain ==
    /\ rpc = "resolved"
    /\ rout2' = Resolve(rout)
    /\ rpc' = "again"
    /\ UNCHANGED <<rin, rout, runp>>

\* The buffer a primitive owns, &primitive->buffer.
PrimBuffer(p) == p \o ".buffer"

\* base.size of a buffer: of a heap buffer, of the buffer a primitive owns
\* (its vertices unless they are referenced, then its indices unless they are
\* referenced), of the buffer a group owns.
OwnerSize(buffer) ==
    IF buffer \in {"B1", "B2"} THEN BufferSize
    ELSE IF \E g \in DOMAIN Groups : buffer = GroupBuffer(g)
    THEN Groups[CHOOSE g \in DOMAIN Groups : buffer = GroupBuffer(g)].size
    ELSE LET p == Primitives[CHOOSE q \in DOMAIN Primitives : buffer = PrimBuffer(q)]
         IN (IF GFX_REF_IS_NULL(p.refVertex) THEN p.numVertices * p.stride ELSE 0)
            + (IF GFX_REF_IS_NULL(p.refIndex) THEN p.numIndices * p.indexSize ELSE 0)

\* _gfx_ref_unpack, the value of an index reference as the primitive's own
\* buffer is unpacked: `ref.offset + IS_NULL(refVertex) ? n * stride : 0`, in
\* which the addition binds tighter than the conditional.
UnpackIndexValue(ref) ==
    LET p == Primitives[ref.obj]
        isNull == IF GFX_REF_IS_NULL(p.refVertex) THEN 1 ELSE 0
    IN IF ref.offset + isNull # 0 THEN p.numVertices * p.stride ELSE 0

\* _gfx_ref_unpack; _GFX_CHECK_UNPACK only warns, in debug builds.
Unpack(r0) ==
    LET ref == Resolve(r0)
    IN CASE ref.type = "BUFFER" -> UnpackRef(ref.obj, Null, Null, ref.offset)
         [] ref.type = "IMAGE" -> UnpackRef(Null, ref.obj, Null, 0)
         [] ref.type = "PRIMITIVE_VERTICES" ->
              UnpackRef(PrimBuffer(ref.obj), Null, Null, ref.offset)
         [] ref.type = "PRIMITIVE_INDICES" ->
              UnpackRef(PrimBuffer(ref.obj), Null, Null, UnpackIndexValue(ref))
         [] ref.type = "GROUP_BUFFER" ->
              UnpackRef(GroupBuffer(ref.obj), Null, Null,
                        ref.offset + Groups[ref.obj].bindings[ref.values[1] + 1]
                                        .refs[ref.values[2] + 1].offset)
         [] ref.type = "ATTACHMENT" -> UnpackRef(Null, Null, ref.obj, ref.values[1])
         [] OTHER -> UnpackRef(Null, Null, Null, 0)

\* The caller unpacks its reference.
UnpackCall ==
    /\ rpc = "start"
    /\ runp' = Unpack(rin)
    /\ rpc' = "unpacked"
    /\ UNCHANGED <<rin, rout, rout2>>

(***************************************************************************)
(* FORMAT REGISTRY                                                         *)
(***************************************************************************)
VARIABLES
    formats, \* device->formats: sequence of [fmt, props]
    fquery,  \* the call: [fmt, flags, features]
    fdepth,  \* which depth test GFX_FORMAT_IS_CONTAINED makes
    fret,    \* what gfx_format_fuzzy returned
    xpc      \* "start", "done"

xvars == <<formats, fquery, fdepth, fret, xpc>>

\* GFXFormat
Format(comps, type, order) == [comps |-> comps, type |-> type, order |-> order]

GFX_FORMAT_EMPTY == Format(<<0, 0, 0, 0>>, {}, {})

\* GFX_DIFF
Diff(x, y) == IF x > y THEN x - y ELSE y - x

\* _GFX_GET_DISTANCE
GetDistance(fmta, fmtb) ==
    Diff(fmta.comps[1], fmtb.comps[1]) + Diff(fmta.comps[2], fmtb.comps[2])
    + Diff(fmta.comps[3], fmtb.comps[3]) + Diff(fmta.comps[4], fmtb.comps[4])

\* _GFX_GET_FEATURES
GetFeatures(vkProps) ==
    Bit(vkProps.buffer, "VK_VERTEX_BUFFER", {"VERTEX_BUFFER"})
    \cup Bit(vkProps.buffer, "VK_UNIFORM_TEXEL_BUFFER", {"UNIFORM_TEXEL_BUFFER"})
    \cup Bit(vkProps.buffer, "VK_STORAGE_TEXEL_BUFFER", {"STORAGE_TEXEL_BUFFER"})
    \cup Bit(vkProps.optimal, "VK_SAMPLED_IMAGE", {"SAMPLED_IMAGE"})
    \cup Bit(vkProps.optimal, "VK_SAMPLED_IMAGE_FILTER_LINEAR", {"SAMPLED_IMAGE_LINEAR"})
    \cup Bit(vkProps.optimal, "VK_SAMPLED_IMAGE_FILTER_MINMAX", {"SAMPLED_IMAGE_MINMAX"})
    \cup Bit(vkProps.optimal, "VK_STORAGE_IMAGE", {"STORAGE_IMAGE"})
    \cup Bit(vkProps.optimal, "VK_COLOR_ATTACHMENT", {"ATTACHMENT"})
    \cup Bit(vkProps.optimal, "VK_COLOR_ATTACHMENT_BLEND", {"ATTACHMENT_BLEND"})
    \cup Bit(vkProps.optimal, "VK_TRANSFER_SRC", {"IMAGE_READ"})
    \cup Bit(vkProps.optimal, "VK_TRANSFER_DST", {"IMAGE_WRITE"})

\* GFX_FORMAT_IS_COMPRESSED: the order is one of the block compressions.
IsCompressed(fmt) == fmt.order \cap {"BCn", "ETC2", "ASTC"} # {}

\* The type and order part of containment, as gfx_format_fuzzy spells it out.
TypeOrderMatch(eFmt, fmt) ==
    /\ eFmt.type \subseteq fmt.type
    /\ IF IsCompressed(eFmt) THEN eFmt.order = fmt.order
       ELSE eFmt.order \subseteq fmt.order

\* The depth tests GFX_FORMAT_IS_CONTAINED may make: the header that defines
\* the macro is not part of the sources, which only say that it checks the
\* bit depth besides type and order.
DepthTests == {"equal", "atleast", "given"}

\* GFX_FORMAT_IS_CONTAINED under depth test t.
IsContained(t, fmta, fmtb) ==
    /\ TypeOrderMatch(fmta, fmtb)
    /\ \A k \in 1..4 :
         CASE t = "equal" -> fmta.comps[k] = fmtb.comps[k]
           [] t = "atleast" -> fmta.comps[k] >= fmtb.comps[k]
           [] OTHER -> fmtb.comps[k] = 0 \/ fmta.comps[k] = fmtb.comps[k]

\* gfx_format_fuzzy, the first `continue`: type, order and features.
FuzzySkipsMatch(elem, fmt, features) ==
    \/ ~(features \subseteq GetFeatures(elem.props))
    \/ ~(elem.fmt.type \subseteq fmt.type)
    \/ (IF IsCompressed(elem.fmt) THEN elem.fmt.order # fmt.order
        ELSE ~(elem.fmt.order \subseteq fmt.order))

\* A plausible slip: the bounds are tested on the first channel only.
FuzzySkipsDepthFirst(eFmt, fmt, flags) ==
    \/ ("MIN_DEPTH" \in flags /\ eFmt.comps[1] < fmt.comps[1])
    \/ ("MAX_DEPTH" \in flags /\ eFmt.comps[1] > fmt.comps[1])

\* gfx_format_fuzzy, the second `continue`: the bit depth requirements.
FuzzySkipsDepth(eFmt, fmt, flags) ==
    \/ ("MIN_DEPTH" \in flags /\ \E k \in 1..4 : eFmt.comps[k] < fmt.comps[k])
    \/ ("MAX_DEPTH" \in flags /\ \E k \in 1..4 : eFmt.comps[k] > fmt.comps[k])

\* `dist = UINT_MAX`: above every distance of four 8-bit depths.
DistMax == 1021

\* A plausible slip: whether a contained record was found is not looked at.
FuzzyTakesAnyCloser(contained, cont, d, dist) == cont \/ d < dist

\* gfx_format_fuzzy, the test that takes a record as the best so far.
FuzzyTakes(contained, cont, d, dist) ==
    IF contained THEN cont /\ d < dist ELSE cont \/ d < dist

RECURSIVE FuzzyLoop(_, _, _, _, _)
\* gfx_format_fuzzy, the loop from record f on; best is [fmt, contained, dist].
FuzzyLoop(tab, f, q, t, best) ==
    IF f > Len(tab) THEN best.fmt
    ELSE LET elem == tab[f]
             cont == IsContained(t, elem.fmt, q.fmt)
             d == GetDistance(elem.fmt, q.fmt)
         IN IF FuzzySkipsMatch(elem, q.fmt, q.features)
                \/ FuzzySkipsDepth(elem.fmt, q.fmt, q.flags)
            THEN FuzzyLoop(tab, f + 1, q, t, best)
            ELSE IF FuzzyTakes(best.contained, cont, d, best.dist)
            THEN FuzzyLoop(tab, f + 1, q, t,
                           [fmt |-> elem.fmt, contained |-> cont, dist |-> d])
            ELSE FuzzyLoop(tab, f + 1, q, t, best)

\* gfx_format_fuzzy
FormatFuzzy(tab, q, t) ==
    FuzzyLoop(tab, 1, q, t,
              [fmt |-> GFX_FORMAT_EMPTY, contained |-> FALSE, dist |-> DistMax])

\* VkFormatProperties
VkProps(linear, optimal, buffer) ==
    [linear |-> linear, optimal |-> optimal, buffer |-> buffer]

\* The records a device may hold.
DeviceRecords ==
    {[fmt |-> Format(<<8, 8, 8, 8>>, {"UNORM"}, {"RGBA"}),
      vk |-> "VK_FORMAT_R8G8B8A8_UNORM",
      props |-> VkProps({}, {"VK_SAMPLED_IMAGE", "VK_COLOR_ATTACHMENT"}, {})],
     [fmt |-> Format(<<16, 16, 16, 16>>, {"UNORM"}, {"RGBA"}),
      vk |-> "VK_FORMAT_R16G16B16A16_UNORM",
      props |-> VkProps({"VK_COLOR_ATTACHMENT"}, {"VK_SAMPLED_IMAGE"}, {})],
     [fmt |-> Format(<<8, 8, 8, 0>>, {"UNORM"}, {"RGB"}),
      vk |-> "VK_FORMAT_R8G8B8_UNORM",
      props |-> VkProps({}, {"VK_SAMPLED_IMAGE"}, {"VK_VERTEX_BUFFER"})],
     [fmt |-> Format(<<8, 8, 8, 8>>, {"SRGB"}, {"RGBA"}),
      vk |-> "VK_FORMAT_R8G8B8A8_SRGB",
      props |-> VkProps({}, {"VK_SAMPLED_IMAGE", "VK_COLOR_ATTACHMENT"}, {})],
     [fmt |-> Format(<<16, 16, 16, 4>>, {"UNORM"}, {"BCn"}),
      vk |-> "VK_FORMAT_BC1_RGBA_UNORM_BLOCK",
      props |-> VkProps({}, {"VK_SAMPLED_IMAGE"}, {})]}

\* The format tables: the records are distinct, in any order.
FormatTables ==
    {tab \in UNION {[1..n -> DeviceRecords] : n \in 0..MaxFormats} :
        \A a, b \in DOMAIN tab : a # b => tab[a] # tab[b]}

\* The calls of gfx_format_fuzzy.
FuzzyQueries ==
    [fmt : {Format(c, t, o) :
                c \in {<<10, 10, 10, 10>>, <<8, 8, 8, 8>>, <<8, 8, 8, 0>>},
                t \in {{"UNORM"}, {"UNORM", "SRGB"}},
                o \in {{"RGBA"}, {"RGB", "RGBA"}, {"BCn"}}},
     flags : SUBSET {"MIN_DEPTH", "MAX_DEPTH"},
     features : {{"SAMPLED_IMAGE"}, {"ATTACHMENT"}}]

FormatInit ==
    /\ formats \in FormatTables
    /\ fquery \in FuzzyQueries
    /\ fdepth \in DepthTests
    /\ fret = GFX_FORMAT_EMPTY
    /\ xpc = "start"

\* In the specifications that make no format calls.
FormatIdle ==
    /\ formats = <<>>
    /\ fquery = [fmt |-> GFX_FORMAT_EMPTY, flags |-> {}, features |-> {}]
    /\ fdepth = "equal"
    /\ fret = GFX_FORMAT_EMPTY
    /\ xpc = "start"

\* The caller asks for the closest format.
FuzzyCall ==
    /\ xpc = "start"
    /\ fret' = FormatFuzzy(formats, fquery, fdepth)
    /\ xpc' = "done"
    /\ UNCHANGED <<formats, fquery, fdepth>>

\* The `props` argument of _gfx_resolve_format: NULL (not given), or the
\* minimal VkFormatProperties.
PropsNull == [given |-> FALSE, linear |-> {}, optimal |-> {}, buffer |-> {}]
MinProps(linear, optimal, buffer) ==
    [given |-> TRUE, linear |-> linear, optimal |-> optimal, buffer |-> buffer]

\* _gfx_resolve_format, the `continue`: the record does not contain the
\* format, or lacks some of the minimal properties when these are given.
ResolveSkips(elem, fmt, props, t) ==
    \/ ~IsContained(t, elem.fmt, fmt)
    \/ /\ props.given
       /\ \/ props.linear \cap elem.props.linear # props.linear
          \/ props.optimal \cap elem.props.optimal # props.optimal
          \/ props.buffer \cap elem.props.buffer # props.buffer

\* A plausible slip: a record as close as the best so far replaces it.
ResolveTakesAsClose(d, dist) == d <= dist

\* _gfx_resolve_format, the test that takes a record as the best so far.
ResolveTakes(d, dist) == d < dist

VK_FORMAT_UNDEFINED == "VK_FORMAT_UNDEFINED"

RECURSIVE ResolveLoop(_, _, _, _, _, _)
\* _gfx_resolve_format, the loop from record f on; best is [vk, fmt, dist].
ResolveLoop(tab, f, fmt, props, t, best) ==
    IF f > Len(tab) THEN [vk |-> best.vk, fmt |-> best.fmt]
    ELSE LET elem == tab[f]
             d == GetDistance(elem.fmt, fmt)
         IN IF ResolveSkips(elem, fmt, props, t)
            THEN ResolveLoop(tab, f + 1, fmt, props, t, best)
            ELSE IF ResolveTakes(d, best.dist)
            THEN ResolveLoop(tab, f + 1, fmt, props, t,
                             [vk |-> elem.vk, fmt |-> elem.fmt, dist |-> d])
            ELSE ResolveLoop(tab, f + 1, fmt, props, t, best)

\* _gfx_resolve_format: the backend format returned and what *fmt is set to.
ResolveFormat(tab, fmt, props, t) ==
    ResolveLoop(tab, 1, fmt, props, t,
                [vk |-> VK_FORMAT_UNDEFINED, fmt |-> GFX_FORMAT_EMPTY,
                 dist |-> DistMax])

\* The calls of _gfx_resolve_format: a format, some of whose depths may be
\* left open, and minimal properties or NULL.
ResolveQueries ==
    [fmt : {Format(c, t, o) :
                c \in {<<8, 8, 8, 8>>, <<8, 8, 8, 0>>, <<16, 16, 16, 16>>},
                t \in {{"UNORM"}, {"UNORM", "SRGB"}},
                o \in {{"RGBA"}, {"RGB", "RGBA"}}},
     props : {PropsNull,
              MinProps({}, {"VK_SAMPLED_IMAGE"}, {}),
              MinProps({"VK_COLOR_ATTACHMENT"}, {"VK_SAMPLED_IMAGE"}, {}),
              MinProps({}, {"VK_SAMPLED_IMAGE"}, {"VK_VERTEX_BUFFER"})}]

ResolveFormatInit ==
    /\ formats \in FormatTables
    /\ fquery \in ResolveQueries
    /\ fdepth \in DepthTests
    /\ fret = [vk |-> VK_FORMAT_UNDEFINED, fmt |-> GFX_FORMAT_EMPTY]
    /\ xpc = "start"

\* The caller resolves its format against the device.
ResolveFormatCall ==
    /\ xpc = "start"
    /\ fret' = ResolveFormat(formats, fquery.fmt, fquery.props, fdepth)
    /\ xpc' = "done"
    /\ UNCHANGED <<formats, fquery, fdepth>>

(***************************************************************************)
(* ACCESS MASKS                                                            *)
(***************************************************************************)
VARIABLES
    acc    \* a caller mapping an access mask: the mask, the shader stage
           \* hint, the format class, and the three results

avars == <<acc>>

\* The access bits of GFXAccessMask.
AccessBits ==
    {"VERTEX_READ", "INDEX_READ", "UNIFORM_READ", "INDIRECT_READ",
     "SAMPLED_READ", "STORAGE_READ", "STORAGE_WRITE", "ATTACHMENT_INPUT",
     "ATTACHMENT_READ", "ATTACHMENT_WRITE", "TRANSFER_READ", "TRANSFER_WRITE",
     "HOST_READ", "HOST_WRITE"}

\* The most access bits of one mask.
MaxMaskBits == 3

\* The masks a caller passes: some access bits and some modifiers.
AccessMasks ==
    {a \cup m : a \in {x \in SUBSET AccessBits : Cardinality(x) <= MaxMaskBits},
                m \in {{}, {"DISCARD"}, {"COMPUTE_ASYNC", "TRANSFER_ASYNC"},
                       AccessModifiers}}

\* The shader stage hints a caller passes; empty is 0.
StageHints ==
    {{}, {"VERTEX"}, {"FRAGMENT"}, {"VERTEX", "FRAGMENT"}, {"COMPUTE"},
     ShaderStages}

AccInit ==
    acc \in [pc : {"start"}, mask : AccessMasks, stage : StageHints,
             ds : BOOLEAN, access : {{}}, layout : {"none"}, stages : {{}}]

\* In the specifications that map no access mask.
AccIdle ==
    acc = [pc |-> "start", mask |-> {}, stage |-> {}, ds |-> FALSE,
           access |-> {}, layout |-> "none", stages |-> {}]

\* The caller fills the halves of a barrier from its access mask.
MapAccess ==
    /\ acc.pc = "start"
    /\ acc' = [acc EXCEPT !.pc = "done",
                          !.access = GetVkAccessFlags(acc.mask, acc.ds),
                          !.layout = GetVkImageLayout(acc.mask, acc.ds),
                          !.stages = GetVkPipelineStage(acc.mask, acc.stage,
                                                        acc.ds)]

(***************************************************************************)
(* HASH MAP                                                                *)
(***************************************************************************)
VARIABLES
    maps,  \* two GFXMap objects: size, capacity, buckets (each a chain of
           \* nodes, head first), and which hash function the map was given
    cnt,   \* history: per map and key, how many elements were put in and
           \* not taken out again
    mlast  \* history: the last map call

mvars == <<maps, cnt, mlast>>

\* Most nodes alive in the two maps together.
MapNodes == 3

MapIds == {"A", "B"}
Keys == {"k1", "k2"}

\* No key given (key == NULL).
NoKey == "nokey"

\* The hash functions a map is given at gfx_map_init.  Under h1 the two keys
\* share a bucket at capacity 4 and part at capacity 8; under h2 they have
\* the same hash.
HashOf(fn, key) ==
    IF fn = "h1" THEN (IF key = "k1" THEN 1 ELSE 5) ELSE 2

\* _GFXMapNode with the key stored behind it.
Node(key, hash) == [key |-> key, hash |-> hash]

\* gfx_map_init
EmptyMap(fn) == [size |-> 0, capacity |-> 0, buckets |-> <<>>, hash |-> fn]

\* `hash % capacity`, as the index of the bucket counted from 1.
BucketOf(hash, capacity) == (hash % capacity) + 1

\* `mNode->next = buckets[hInd]; buckets[hInd] = mNode`
PushHead(buckets, node) ==
    [buckets EXCEPT ![BucketOf(node.hash, Len(buckets))] = <<node>> \o @]

RECURSIVE Flat(_, _)
\* The nodes in the order the loops over the buckets visit them, from
\* bucket i on.
Flat(buckets, i) ==
    IF i > Len(buckets) THEN <<>> ELSE buckets[i] \o Flat(buckets, i + 1)

RECURSIVE PushAll(_, _)
PushAll(nodes, buckets) ==
    IF nodes = <<>> THEN buckets
    ELSE PushAll(Tail(nodes), PushHead(buckets, Head(nodes)))

\* _gfx_map_realloc, when malloc succeeds.
Realloc(map, capacity) ==
    [map EXCEPT !.capacity = capacity,
                !.buckets = PushAll(Flat(map.buckets, 1),
                                    [i \in 1..capacity |-> <<>>])]

\* A plausible slip: the map is let to fill up entirely.
LoadOkFull(minNodes, capacity) == minNodes <= capacity

\* _gfx_map_grow: `minNodes <= (double)capacity * _GFX_MAP_LOAD_FACTOR`.
LoadOk(minNodes, capacity) == 4 * minNodes <= 3 * capacity

RECURSIVE GrowLoop(_, _)
\* _gfx_map_grow: `while (minNodes > cap * LOAD_FACTOR) cap <<= 1`.
GrowLoop(minNodes, cap) ==
    IF LoadOk(minNodes, cap) THEN cap ELSE GrowLoop(minNodes, cap * 2)

\* _gfx_map_grow, the capacity it asks for.
GrowCap(map, minNodes) ==
    IF LoadOk(minNodes, map.capacity) THEN map.capacity
    ELSE GrowLoop(minNodes, IF map.capacity > 0 THEN map.capacity * 2 ELSE 4)

\* A plausible slip: the old buckets are freed before the new ones are
\* known to exist.
GrowFreesFirst(map, minNodes, mem) ==
    IF GrowCap(map, minNodes) = map.capacity THEN [ok |-> TRUE, map |-> map]
    ELSE IF ~mem
    THEN [ok |-> FALSE,
          map |-> [map EXCEPT !.size = 0, !.capacity = 0, !.buckets = <<>>]]
    ELSE [ok |-> TRUE, map |-> Realloc(map, GrowCap(map, minNodes))]

\* _gfx_map_grow: mem tells whether malloc succeeds.  The result is whether
\* it succeeded and the map it leaves.
Grow(map, minNodes, mem) ==
    IF GrowCap(map, minNodes) = map.capacity THEN [ok |-> TRUE, map |-> map]
    ELSE IF ~mem THEN [ok |-> FALSE, map |-> map]
    ELSE [ok |-> TRUE, map |-> Realloc(map, GrowCap(map, minNodes))]

\* gfx_map_clear
ClearMap(map) == [map EXCEPT !.size = 0, !.capacity = 0, !.buckets = <<>>]

RECURSIVE ShrinkLoop(_, _)
\* _gfx_map_shrink: `while (map->size < (cap >> 2)) cap >>= 1`.
ShrinkLoop(size, cap) ==
    IF size < cap \div 4 THEN ShrinkLoop(size, cap \div 2) ELSE cap

\* A plausible slip: the capacity is halved once and no further.
ShrinkCapOnce(size, capacity) ==
    IF size < (capacity \div 2) \div 2 THEN capacity \div 2 ELSE capacity

\* _gfx_map_shrink, the capacity it asks for when the map holds nodes.
ShrinkCap(size, capacity) ==
    IF size < (capacity \div 2) \div 2
    THEN ShrinkLoop(size, capacity \div 2) ELSE capacity

\* _gfx_map_shrink: the result of _gfx_map_realloc is not looked at.
Shrink(map, mem) ==
    IF map.size = 0 THEN ClearMap(map)
    ELSE IF ShrinkCap(map.size, map.capacity) = map.capacity THEN map
    ELSE IF ~mem THEN map
    ELSE Realloc(map, ShrinkCap(map.size, map.capacity))

\* The shrink wanted a smaller block of memory and did not get it.
ShrinkFails(map, mem) ==
    /\ map.size > 0
    /\ ShrinkCap(map.size, map.capacity) # map.capacity
    /\ ~mem

\* The chain with the node at position p unlinked.
Unlink(chain, p) == SubSeq(chain, 1, p - 1) \o SubSeq(chain, p + 1, Len(chain))

\* gfx_map_ferase of the node at position p of bucket b.
FEraseNode(map, b, p) ==
    [map EXCEPT !.buckets[b] = Unlink(@, p), !.size = @ - 1]

\* The positions of the nodes of a map: what a caller holds a pointer to.
NodesOf(map) ==
    {bp \in (1..map.capacity) \X (1..MapNodes) :
        bp[2] <= Len(map.buckets[bp[1]])}

\* Every position a node of the two maps can have.
MapSlots == UNION {NodesOf(maps[m]) : m \in MapIds}

NoNode == [key |-> NoKey, hash |-> 0]

RECURSIVE SearchChain(_, _, _)
SearchChain(chain, key, hash) ==
    IF chain = <<>> THEN NoNode
    ELSE IF hash = Head(chain).hash /\ key = Head(chain).key THEN Head(chain)
    ELSE SearchChain(Tail(chain), key, hash)

\* gfx_map_hsearch
HSearch(map, key, hash) ==
    IF map.capacity = 0 THEN NoNode
    ELSE SearchChain(map.buckets[BucketOf(hash, map.capacity)], key, hash)

\* gfx_map_search
Search(map, key) == HSearch(map, key, HashOf(map.hash, key))

\* A plausible slip: a node given a new key keeps the hash of the old one.
MoveHashStored(map, dst, node, key) ==
    IF key = NoKey /\ map.hash # dst.hash THEN HashOf(dst.hash, node.key)
    ELSE node.hash

\* _gfx_map_move, the hash the node is stored with in the destination.
MoveHash(map, dst, node, key) ==
    IF key # NoKey THEN HashOf(dst.hash, key)
    ELSE IF map.hash # dst.hash THEN HashOf(dst.hash, node.key)
    ELSE node.hash

\* What is kept of the last call: whether it succeeded, the map it put
\* nodes into or made room in (into), the map it took a node out of and
\* shrank (from), and whether that shrink got no memory.
MLast(op, ok, src, dst, sfail) ==
    [ok |-> ok,
     into |-> IF ok /\ op \in {"insert", "reserve", "merge", "move", "fmove"}
              THEN dst ELSE "none",
     from |-> IF ok /\ op \in {"erase", "move", "shrink"}
              THEN src ELSE "none",
     sfail |-> sfail]

Alive == maps["A"].size + maps["B"].size

MapInit ==
    /\ maps = [m \in MapIds |-> EmptyMap(IF m = "A" THEN "h1" ELSE "h2")]
    /\ cnt = [m \in MapIds |-> [k \in Keys |-> 0]]
    /\ mlast = MLast("init", TRUE, "A", "A", FALSE)

\* In the specifications that use no map.
MapIdle ==
    /\ maps = [m \in MapIds |-> EmptyMap("h1")]
    /\ cnt = [m \in MapIds |-> [k \in Keys |-> 0]]
    /\ mlast = MLast("init", TRUE, "A", "A", FALSE)

\* gfx_map_hinsert returns NULL; mem: "ok", or which malloc fails, the
\* node's ("node") or the bucket array's ("grow").
InsertFails(m, mem) ==
    mem = "node" \/ ~Grow(maps[m], maps[m].size + 1, mem # "grow").ok

\* gfx_map_insert
Insert(m, key, mem) ==
    LET map == maps[m]
        hash == HashOf(map.hash, key)
        g == Grow(map, map.size + 1, mem # "grow")
    IN IF InsertFails(m, mem)
       THEN /\ mlast' = MLast("insert", FALSE, m, m, FALSE)
            /\ maps' = [maps EXCEPT ![m] = IF mem = "node" THEN @ ELSE g.map]
            /\ UNCHANGED cnt
       ELSE /\ maps' = [maps EXCEPT ![m] =
                 [g.map EXCEPT !.size = @ + 1,
                               !.buckets = PushHead(@, Node(key, hash))]]
            /\ cnt' = [cnt EXCEPT ![m][key] = @ + 1]
            /\ mlast' = MLast("insert", TRUE, m, m, FALSE)

\* gfx_map_ferase
FErase(m, b, p) ==
    /\ <<b, p>> \in NodesOf(maps[m])
    /\ maps' = [maps EXCEPT ![m] = FEraseNode(@, b, p)]
    /\ cnt' = [cnt EXCEPT ![m][maps[m].buckets[b][p].key] = @ - 1]
    /\ mlast' = MLast("ferase", TRUE, m, m, FALSE)

\* gfx_map_erase
Erase(m, b, p, mem) ==
    /\ <<b, p>> \in NodesOf(maps[m])
    /\ maps' = [maps EXCEPT ![m] = Shrink(FEraseNode(@, b, p), mem)]
    /\ cnt' = [cnt EXCEPT ![m][maps[m].buckets[b][p].key] = @ - 1]
    /\ mlast' = MLast("erase", TRUE, m, m,
                      ShrinkFails(FEraseNode(maps[m], b, p), mem))

\* gfx_map_reserve
Reserve(m, numNodes, mem) ==
    LET g == Grow(maps[m], numNodes, mem)
    IN /\ maps' = [maps EXCEPT ![m] = g.map]
       /\ mlast' = MLast("reserve", g.ok, m, m, FALSE)
       /\ UNCHANGED cnt

\* gfx_map_shrink
ShrinkMap(m, mem) ==
    /\ maps' = [maps EXCEPT ![m] = Shrink(@, mem)]
    /\ mlast' = MLast("shrink", TRUE, m, m, ShrinkFails(maps[m], mem))
    /\ UNCHANGED cnt

\* gfx_map_merge of src into m.
Merge(m, src, mem) ==
    /\ m # src
    /\ LET g == Grow(maps[m], maps[m].size + maps[src].size, mem)
           moved == [x \in DOMAIN Flat(maps[src].buckets, 1) |->
                       LET n == Flat(maps[src].buckets, 1)[x]
                       IN IF maps[src].hash # maps[m].hash
                          THEN Node(n.key, HashOf(maps[m].hash, n.key))
                          ELSE n]
       IN IF ~g.ok
          THEN /\ mlast' = MLast("merge", FALSE, src, m, FALSE)
               /\ maps' = [maps EXCEPT ![m] = g.map]
               /\ UNCHANGED cnt
          ELSE /\ maps' = [maps EXCEPT
                     ![m] = [g.map EXCEPT
                               !.buckets = PushAll(moved, @),
                               !.size = @ + maps[src].size],
                     ![src] = ClearMap(@)]
               /\ cnt' = [cnt EXCEPT
                     ![m] = [k \in Keys |-> cnt[m][k] + cnt[src][k]],
                     ![src] = [k \in Keys |-> 0]]
               /\ mlast' = MLast("merge", TRUE, src, m, FALSE)

\* _gfx_map_move of the node at position p of bucket b of src to dst, with
\* a new key or NoKey.  The result is whether it succeeded and the two maps
\* it leaves.
MoveNode(from, to, same, b, p, key, mem) ==
    LET node == from.buckets[b][p]
        g == IF same THEN [ok |-> TRUE, map |-> to]
             ELSE Grow(to, to.size + 1, mem)
        moved == Node(IF key # NoKey THEN key ELSE node.key,
                      MoveHash(from, to, node, key))
        out == FEraseNode(from, b, p)
        src1 == IF out.size = 0 THEN ClearMap(out) ELSE out
        base == IF same THEN out ELSE g.map
        dst1 == [base EXCEPT !.size = @ + 1, !.buckets = PushHead(@, moved)]
    IN IF ~g.ok THEN [ok |-> FALSE, src |-> from, dst |-> g.map]
       ELSE [ok |-> TRUE, src |-> IF same THEN dst1 ELSE src1, dst |-> dst1]

\* gfx_map_move (shrinks the source) and gfx_map_fmove (does not); mem:
\* "ok", or which malloc fails, the one of the destination's growth ("grow")
\* or the one of the source's shrink ("shrink").
Move(src, dst, b, p, key, fast, mem) ==
    /\ <<b, p>> \in NodesOf(maps[src])
    /\ mem = "grow" => src # dst
    /\ mem = "shrink" => ~fast
    /\ LET r == MoveNode(maps[src], maps[dst], src = dst, b, p, key,
                         mem # "grow")
           smem == mem # "shrink"
           node == maps[src].buckets[b][p]
           name == IF fast THEN "fmove" ELSE "move"
           to == IF key # NoKey THEN key ELSE node.key
       IN IF ~r.ok
          THEN /\ mlast' = MLast(name, FALSE, src, dst, FALSE)
               /\ maps' = [maps EXCEPT ![dst] = r.dst]
               /\ UNCHANGED cnt
          ELSE /\ maps' = [maps EXCEPT
                     ![dst] = r.dst,
                     ![src] = IF fast THEN r.src ELSE Shrink(r.src, smem)]
               /\ cnt' = [[cnt EXCEPT ![src][node.key] = @ - 1]
                             EXCEPT ![dst][to] = @ + 1]
               /\ mlast' = MLast(name, TRUE, src, dst,
                                 ~fast /\ ShrinkFails(r.src, smem))

\* The numbers of nodes a caller reserves for.
ReserveSizes == {4, 7}

(***************************************************************************)
(* COMPARING UNPACKED REFERENCES                                           *)
(***************************************************************************)
VARIABLES
    cmp    \* a caller comparing two references: the references, what they
           \* unpacked to, and the outcome of the comparison in both orders

cvars == <<cmp>>

CmpInit ==
    cmp \in [pc : {"start"}, a : RefInputs, b : RefInputs,
             ua : {UnpackRef(Null, Null, Null, 0)},
             ub : {UnpackRef(Null, Null, Null, 0)},
             ab : {FALSE}, ba : {FALSE}]

\* In the specifications that compare no references.
CmpIdle ==
    cmp = [pc |-> "start", a |-> GFX_REF_NULL, b |-> GFX_REF_NULL,
           ua |-> UnpackRef(Null, Null, Null, 0),
           ub |-> UnpackRef(Null, Null, Null, 0),
           ab |-> FALSE, ba |-> FALSE]

\* The caller unpacks its two references.
CmpUnpack ==
    /\ cmp.pc = "start"
    /\ cmp' = [cmp EXCEPT !.pc = "unpacked",
                          !.ua = Unpack(cmp.a), !.ub = Unpack(cmp.b)]

\* The caller compares the unpacked references, in either order.
CmpCompare ==
    /\ cmp.pc = "unpacked"
    /\ cmp' = [cmp EXCEPT !.pc = "compared",
                          !.ab = UnpackRefIsEqual(cmp.ua, cmp.ub),
                          !.ba = UnpackRefIsEqual(cmp.ub, cmp.ua)]

(***************************************************************************)
(* SPECIFICATIONS                                                          *)
(***************************************************************************)
vars == <<gvars, dvars, fvars, rvars, xvars, cvars, avars, tvars, mvars>>

\* The parents SpecGraph draws: none, or the pass added last.
ChainParents == IF Len(pass) = 0 THEN {{}} ELSE {{}, {Len(pass)}}

\* The parts of the state an operation of another part leaves alone.
GraphOnly == UNCHANGED <<dvars, fvars, rvars, xvars, cvars, avars, tvars, mvars>>
DepsOnly == UNCHANGED <<gvars, fvars, rvars, xvars, cvars, avars, tvars, mvars>>
FrameOnly == UNCHANGED <<gvars, dvars, rvars, xvars, cvars, avars, tvars, mvars>>
RefOnly == UNCHANGED <<gvars, dvars, fvars, xvars, cvars, avars, tvars, mvars>>
FormatOnly == UNCHANGED <<gvars, dvars, fvars, rvars, cvars, avars, tvars, mvars>>
CmpOnly == UNCHANGED <<gvars, dvars, fvars, rvars, xvars, avars, tvars, mvars>>
AccOnly == UNCHANGED <<gvars, dvars, fvars, rvars, xvars, cvars, tvars, mvars>>
ThreadOnly == UNCHANGED <<gvars, fvars, rvars, xvars, cvars, avars, mvars>>
MapOnly == UNCHANGED <<gvars, dvars, fvars, rvars, xvars, cvars, avars, tvars>>

\* A renderer and a dependency as created, and no reference call under way.
Init == GraphInit /\ DepInit /\ ThrInit /\ MapIdle /\ FrameInit /\ RefIdle /\ FormatIdle /\ CmpIdle /\ AccIdle

\* A renderer and a dependency as created, and a caller holding a reference.
InitRef == GraphInit /\ DepInit /\ ThrInit /\ MapIdle /\ FrameInit /\ RefInit /\ FormatIdle /\ CmpIdle /\ AccIdle

\* A renderer and a dependency as created, and a caller holding two references.
InitCmp == GraphInit /\ DepInit /\ ThrInit /\ MapIdle /\ FrameInit /\ RefIdle /\ FormatIdle /\ CmpInit /\ AccIdle

\* A renderer and a dependency as created, and a caller about to ask a device
\* for a format.
InitFormat ==
    GraphInit /\ DepInit /\ ThrInit /\ MapIdle /\ FrameInit /\ RefIdle /\ FormatInit /\ CmpIdle
    /\ AccIdle

TopoNext ==
    \/ \E parents \in SUBSET (1..Len(pass)) :
          glast.op # "clear" /\ AddPass(parents) /\ GraphOnly
    \/ \E step \in AddPassSteps :
          glast.op # "clear" /\ AddPassFail(step) /\ GraphOnly
    \/ glast.op # "clear" /\ Clear /\ GraphOnly

GraphNext ==
    \/ \E parents \in ChainParents :
          Len(pass) < GraphPasses /\ AddPass(parents) /\ GraphOnly
    \/ \E step \in AddPassSteps :
          Len(pass) < GraphPasses /\ AddPassFail(step) /\ GraphOnly
    \/ \E F \in SUBSET WarmupCalls : Warmup(F) /\ GraphOnly
    \/ \E F \in SUBSET BuildCalls :
          Build([i \in BuildCalls |->
                    IF i \in F THEN BuildFails ELSE PassWindow(i)]) /\ GraphOnly
    \/ \E index \in AttachIdx :
          \E flags \in RebuildFlags :
              \E W \in [RebuildCalls(index) -> {BuildFails, index}] :
                  Rebuild(index, flags, W) /\ GraphOnly
    \/ \E index \in AttachIdx : Destruct(index) /\ GraphOnly
    \/ Invalidate /\ GraphOnly

DepNext ==
    \/ \E i \in Injs : Start(i) /\ DepsOnly
    \/ \E i \in Injs, w \in WaitInputs : Catch(i, w) /\ DepsOnly
    \/ \E i \in Injs, g \in SigInputs, blocking \in BOOLEAN :
          Prepare(i, g, blocking) /\ DepsOnly
    \/ \E i \in Injs : Abort(i) /\ DepsOnly
    \/ \E i \in Injs : Finish(i) /\ DepsOnly

FrameNext ==
    \/ AcquireRetire /\ FrameOnly
    \/ \E recreate \in BOOLEAN : AcquireWait(recreate) /\ FrameOnly
    \/ \E W \in [RebuildCalls(0) -> {BuildFails, 0}] :
          AcquireRecreate(0, {"RECREATE"}, W)
             /\ UNCHANGED <<dvars, rvars, xvars, cvars, avars, tvars, mvars>>
    \/ Submit /\ FrameOnly
    \/ \E f \in FrameIdx : GpuDone(f) /\ FrameOnly
    \/ PushStale /\ FrameOnly
    \/ PushStaleFail /\ FrameOnly

RefNext ==
    \/ ResolveCall /\ RefOnly
    \/ ResolveAgain /\ RefOnly
    \/ UnpackCall /\ RefOnly

RecreateNext ==
    \/ \E parents \in ChainParents :
          /\ fpc = "idle" /\ Len(pass) < RecreatePasses
          /\ AddPass(parents) /\ GraphOnly
    \/ /\ fpc = "idle"
       /\ Build([i \in BuildCalls |-> PassWindow(i)]) /\ GraphOnly
    \/ AcquireRetire /\ FrameOnly
    \/ \E recreate \in BOOLEAN : AcquireWait(recreate) /\ FrameOnly
    \/ \E W \in [RebuildCalls(0) -> {BuildFails, 0}] :
          AcquireRecreate(0, {"RECREATE"}, W)
             /\ UNCHANGED <<dvars, rvars, xvars, cvars, avars, tvars, mvars>>
    \/ Submit /\ FrameOnly
    \/ \E f \in FrameIdx : GpuDone(f) /\ FrameOnly

\* Passes are added to a graph, which in the end is cleared with its renderer.
SpecTopo == Init /\ [][TopoNext]_vars

\* The render graph under all its operations.
SpecGraph == Init /\ [][GraphNext]_vars

\* One dependency object and the injections of two operations.
SpecDeps == Init /\ [][DepNext]_vars

\* The frame driver, the GPU and the stale resources.
SpecFrame == Init /\ [][FrameNext]_vars

\* The frame loop of a renderer with a window, whose swapchain may ask to
\* be recreated, over a graph that is built between frames.
SpecRecreate == Init /\ [][RecreateNext]_vars

\* Callers resolving references into the heap.
SpecRef == InitRef /\ [][RefNext]_vars

FormatNext == FuzzyCall /\ FormatOnly

\* A renderer and a dependency as created, and a caller about to resolve a
\* format against a device.
InitResolveFormat ==
    GraphInit /\ DepInit /\ ThrInit /\ MapIdle /\ FrameInit /\ RefIdle /\ ResolveFormatInit /\ CmpIdle /\ AccIdle

ResolveFormatNext == ResolveFormatCall /\ FormatOnly

\* Callers resolving a format to the backend format of a device.
SpecResolveFormat == InitResolveFormat /\ [][ResolveFormatNext]_vars

\* A renderer and a dependency as created, and a caller about to map an
\* access mask.
InitAcc ==
    GraphInit /\ DepInit /\ ThrInit /\ MapIdle /\ FrameInit /\ RefIdle /\ FormatIdle /\ CmpIdle
    /\ AccInit

AccNext == MapAccess /\ AccOnly

\* Callers mapping access masks to the halves of a barrier.
SpecAcc == InitAcc /\ [][AccNext]_vars

ThreadNext ==
    \/ \E i \in Injs : ThreadStart(i) /\ ThreadOnly
    \/ \E i \in Injs, w \in ThreadWaits : ThreadCatch(i, w) /\ ThreadOnly
    \/ \E i \in Injs : ThreadRecord(i) /\ ThreadOnly
    \/ \E i \in Injs, g \in ThreadSigs, blocking \in BOOLEAN :
          ThreadPrepare(i, g, blocking) /\ ThreadOnly
    \/ \E i \in Injs : ThreadAbort(i) /\ ThreadOnly
    \/ \E i \in Injs : ThreadFinish(i) /\ ThreadOnly

\* Two threads, each with its own injection, on one dependency.
SpecThreads == Init /\ [][ThreadNext]_vars

\* A renderer and a dependency as created, and two maps just initialised.
InitMap ==
    GraphInit /\ DepInit /\ ThrInit /\ MapInit /\ FrameInit /\ RefIdle
    /\ FormatIdle /\ CmpIdle /\ AccIdle

MapNext ==
    \/ \E m \in MapIds, key \in Keys, mem \in {"ok", "node", "grow"} :
          /\ Alive < MapNodes \/ InsertFails(m, mem)
          /\ Insert(m, key, mem) /\ MapOnly
    \/ \E m \in MapIds, bp \in MapSlots :
          FErase(m, bp[1], bp[2]) /\ MapOnly
    \/ \E m \in MapIds, bp \in MapSlots, mem \in BOOLEAN :
          Erase(m, bp[1], bp[2], mem) /\ MapOnly
    \/ \E m \in MapIds, numNodes \in ReserveSizes, mem \in BOOLEAN :
          Reserve(m, numNodes, mem) /\ MapOnly
    \/ \E m \in MapIds, mem \in BOOLEAN : ShrinkMap(m, mem) /\ MapOnly
    \/ \E m, src \in MapIds, mem \in BOOLEAN : Merge(m, src, mem) /\ MapOnly
    \/ \E src, dst \in MapIds, bp \in MapSlots,
          key \in Keys \cup {NoKey}, fast \in BOOLEAN,
          mem \in {"ok", "grow", "shrink"} :
          Move(src, dst, bp[1], bp[2], key, fast, mem) /\ MapOnly

\* Two hash maps under all their calls.
SpecMap == InitMap /\ [][MapNext]_vars

CmpNext ==
    \/ CmpUnpack /\ CmpOnly
    \/ CmpCompare /\ CmpOnly

\* Callers comparing the resources two references name.
SpecCmp == InitCmp /\ [][CmpNext]_vars

\* Callers asking a device for the closest format.
SpecFormat == InitFormat /\ [][FormatNext]_vars

(***************************************************************************)
(* PROPERTIES                                                              *)
(***************************************************************************)

\* C1: after any sequence of successful add_pass calls, every parent q of
\* every pass p comes before p in the submission order and has a smaller
\* level than p.
C1_TopologicalOrder ==
    \A p \in 1..Len(pass) : \A q \in pass[p].parents :
        /\ IndexOf(passes, q) < IndexOf(passes, p)
        /\ pass[q].level < pass[p].level

\* A pass with two parents was inserted before a pass added earlier.
C1_Witness ==
    \E p \in 1..Len(pass) :
        /\ glast = Last("add_pass", TRUE)
        /\ Cardinality(pass[p].parents) = 2
        /\ \E r \in 1..(p - 1) : IndexOf(passes, p) < IndexOf(passes, r)

\* The passes no pass names as a parent.
Childless == {p \in 1..Len(pass) : \A c \in 1..Len(pass) : p \notin pass[c].parents}

\* C2: after any sequence of successful add_pass calls, the sinks are exactly
\* the passes that no other pass names as a parent, each of them once.
C2_SinkClosure ==
    /\ SeqToSet(sinks) = Childless
    /\ Len(sinks) = Cardinality(Childless)

\* An add_pass took two sinks away at once, and a pass that is no sink remains.
C2_Witness ==
    /\ glast = Last("add_pass", TRUE)
    /\ Len(pass) >= 4
    /\ Cardinality(pass[Len(pass)].parents) = 2
    /\ Len(sinks) = 2
    /\ sinks[Len(sinks)] = Len(pass)

\* C3 as stated: between a successful add_pass and the next warmup or build,
\* the state is INVALID iff the graph had a pass before the call, and EMPTY
\* otherwise.
C3_AsStated ==
    gedit.active =>
        gstate = IF gedit.phad THEN GRAPH_INVALID ELSE GRAPH_EMPTY

\* C3: between a successful add_pass and the next warmup or build, the state
\* is INVALID iff the graph had a pass before the call and was not EMPTY when
\* the call was made, and EMPTY otherwise.
C3_StateAfterAdd ==
    gedit.active =>
        gstate = IF gedit.phad /\ ~gedit.pempty
                 THEN GRAPH_INVALID ELSE GRAPH_EMPTY

\* A pass was added to a graph that held a built pass; it is INVALID since.
C3_Witness ==
    /\ gedit.active
    /\ gedit.phad
    /\ ~gedit.pempty
    /\ gstate = GRAPH_INVALID
    /\ glast.op # "add_pass"

\* C4: a warmup never lowers the state: a state of WARMED or more is kept,
\* VALIDATED becomes WARMED when every pass warms up, and a failure leaves
\* VALIDATED, never INVALID or EMPTY.
C4_WarmupMonotone ==
    [][glast'.op = "warmup" =>
          /\ gstate' >= gstate
          /\ (gstate >= GRAPH_WARMED => gstate' = gstate)
          /\ (gstate = GRAPH_VALIDATED /\ glast'.ok => gstate' = GRAPH_WARMED)
          /\ (~glast'.ok => gstate' = GRAPH_VALIDATED)]_vars

\* A warmup of an invalidated graph has failed and left it VALIDATED.
C4_Witness ==
    /\ glast.op = "warmup" /\ ~glast.ok
    /\ gstate = GRAPH_VALIDATED
    /\ \E i \in 1..Len(pass) : ~pass[i].warm
    /\ \E i \in 1..Len(pass) : pass[i].warm

\* The bytes of a buffer, or the (aspect, mipmap, layer) subresources of an
\* image, that a range as the caller gives it covers; a size of 0 is up to the
\* end of the resource.
Covered(ref, range) ==
    IF ref.buffer # Null
    THEN LET from == ref.value + range.offset
             to == IF range.size = 0 THEN BufferSize ELSE from + range.size
         IN {<<"byte", x>> : x \in from..(to - 1)}
    ELSE LET mips == IF range.numMipmaps = 0 THEN ImageMips
                     ELSE range.mipmap + range.numMipmaps
             lays == IF range.numLayers = 0 THEN ImageLayers
                     ELSE range.layer + range.numLayers
         IN {<<a, m, l>> : a \in range.aspect,
                           m \in range.mipmap..(mips - 1),
                           l \in range.layer..(lays - 1)}

\* What the signal held by sync object s covers.
SyncCovered(s) ==
    IF s.ref.buffer # Null
    THEN {<<"byte", x>> : x \in s.range.offset..(s.range.offset + s.range.size - 1)}
    ELSE {<<a, m, l>> : a \in s.range.aspect,
                        m \in s.range.mipmap..(s.range.mipmap + s.range.numMipmaps - 1),
                        l \in s.range.layer..(s.range.layer + s.range.numLayers - 1)}

\* Sync object s holds a signal of the resource w names, over a range that
\* has a part in common with the range w names.
SameResourceOverlaps(s, w) ==
    /\ s.ref.buffer = w.ref.buffer
    /\ s.ref.image = w.ref.image
    /\ SyncCovered(s) \cap Covered(w.ref, w.range) # {}

\* The barriers the last catch recorded for sync object k.
BarriersOf(d, k) == {x \in 1..Len(d.barriers) : d.barriers[x].sync = k}

\* The wait semaphores injection i holds of sync object k.
WaitsOf(i, k) == {x \in 1..Len(i.waits) : i.waits[x].sem = k}

\* C5: when operation A has signaled a range of a resource on a dependency
\* and operation B then waits on the dependency for an overlapping range of
\* the same resource, the catch of B records exactly one barrier for that
\* signal, its source access taken from the access of A and its destination
\* access from the access of B, and the sync object goes from PENDING to CATCH.
C5_DependencyVisibility ==
    [][/\ dlast'.op = "prepare" =>
            \E k \in 1..Len(syncs') :
                /\ syncs'[k].stage = SYNC_PREPARE
                /\ syncs'[k].srcAccess = GetVkAccessFlags(dlast'.arg.mask, FALSE)
                /\ (k <= Len(syncs) => syncs[k].stage = SYNC_UNUSED)
       /\ dlast'.op = "catch" =>
            \A k \in 1..Len(syncs) :
                (syncs[k].stage = SYNC_PENDING
                    /\ SameResourceOverlaps(syncs[k], dlast'.arg)) =>
                    /\ syncs'[k].stage = SYNC_CATCH
                    /\ Cardinality(BarriersOf(dlast', k)) = 1
                    /\ \A x \in BarriersOf(dlast', k) :
                         /\ dlast'.barriers[x].srcAccess = syncs[k].srcAccess
                         /\ dlast'.barriers[x].dstAccess =
                                GetVkAccessFlags(dlast'.arg.mask, FALSE)]_vars

\* A catch has just taken the pending signal of a buffer range, through a
\* reference that starts further into the buffer than the signal's.
C5_Witness ==
    /\ dlast.op = "catch"
    /\ dlast.arg.ref.value = 1
    /\ Len(dlast.barriers) = 1
    /\ syncs[1].stage = SYNC_CATCH
    /\ syncs[1].ref.buffer = "B1"
    /\ syncs[1].inj = dlast.inj

\* C6: when the range B waits for overlaps no pending signal of the
\* dependency, or B names another resource, the catch records no barrier,
\* takes no wait semaphore from the dependency and leaves the sync objects
\* PENDING.
C6_NoOverlapNoBarrier ==
    [][dlast'.op = "catch" =>
          /\ \A k \in 1..Len(syncs) :
                (syncs[k].stage = SYNC_PENDING
                    /\ ~SameResourceOverlaps(syncs[k], dlast'.arg)) =>
                    /\ syncs'[k] = syncs[k]
                    /\ BarriersOf(dlast', k) = {}
                    /\ WaitsOf(inj'[dlast'.inj], k) = WaitsOf(inj[dlast'.inj], k)
          /\ (\A k \in 1..Len(syncs) :
                ~(syncs[k].stage \in {SYNC_PENDING, SYNC_PREPARE}
                    /\ SameResourceOverlaps(syncs[k], dlast'.arg))) =>
                /\ dlast'.barriers = <<>>
                /\ inj'[dlast'.inj].waits = inj[dlast'.inj].waits]_vars

\* A catch for the second half of a buffer has just left a pending signal of
\* its first half alone.
C6_Witness ==
    /\ dlast.op = "catch"
    /\ dlast.arg.ref.buffer = "B1"
    /\ dlast.arg.range = BufRange(2, 0)
    /\ dlast.barriers = <<>>
    /\ Len(syncs) > 0
    /\ inj[dlast.inj].waits = <<>>
    /\ syncs[1].stage = SYNC_PENDING
    /\ syncs[1].ref.buffer = "B1"
    /\ syncs[1].sem

C8_SameInjectionCatch ==
    [][dlast'.op = "catch" =>
          \A k \in 1..Len(syncs) :
             /\ (syncs[k].stage = SYNC_PREPARE /\ syncs[k].inj = dlast'.inj
                    /\ SameResourceOverlaps(syncs[k], dlast'.arg)) =>
                    /\ syncs'[k].stage = SYNC_PREPARE_CATCH
                    /\ Cardinality(BarriersOf(dlast', k)) = 1
                    /\ WaitsOf(inj'[dlast'.inj], k) = {}
             /\ (syncs[k].stage \in {SYNC_PREPARE, SYNC_PREPARE_CATCH}
                    /\ syncs[k].inj # dlast'.inj) =>
                    /\ syncs'[k] = syncs[k]
                    /\ BarriersOf(dlast', k) = {}
                    /\ WaitsOf(inj'[dlast'.inj], k) = {}]_vars

\* An injection has just caught the signal it prepared with a semaphore.
C8_Witness ==
    /\ dlast.op = "catch"
    /\ Len(dlast.barriers) = 1
    /\ Len(syncs) > 0
    /\ syncs[1].stage = SYNC_PREPARE_CATCH
    /\ syncs[1].inj = dlast.inj
    /\ syncs[1].sem
    /\ inj[dlast.inj].waits = <<>>
    /\ inj[dlast.inj].sigs = <<1>>

\* The part of C9 that holds of every push: an acquire that finds the done
\* fence of its frame signaled leaves no stale entry of that frame behind, and
\* every handle pushed is either still in the stale deque or destroyed.
StalesRetiredInTime ==
    /\ (flast.op = "acquire" /\ flast.ok) =>
            \A k \in 1..Len(stales) : stales[k].frame # flast.frame
    /\ \A h \in 1..Len(attached) :
            (h \in destroyed) # (\E k \in 1..Len(stales) : stales[k].handle = h)

\* The last operation destroyed handles as an acquire does: they were
\* attached to the frame acquired, whose done fence was signaled.
KilledByAcquire ==
    /\ flast.op = "acquire"
    /\ flast.ok
    /\ \A h \in flast.killed : attached[h] = flast.frame

\* C9 as stated: every handle passed to push_stale is destroyed only during a
\* later acquire of the frame it was attached to, after the done fence of
\* that frame is signaled, and no later than that acquire.
C9_AsStated ==
    /\ flast.killed # {} => KilledByAcquire
    /\ StalesRetiredInTime

\* C9: every handle a successful push_stale has taken is destroyed only
\* during a later acquire of the frame it was attached to, after the done
\* fence of that frame is signaled, and no later than that acquire; the
\* handles of a push_stale that fails are destroyed by that call.
C9_StaleRetirement ==
    /\ flast.killed # {} =>
          \/ KilledByAcquire
          \/ /\ flast.op = "push_stale"
             /\ ~flast.ok
             /\ flast.killed = {Len(attached)}
    /\ StalesRetiredInTime

\* The acquire of frame 0 has just destroyed two handles at once, both pushed
\* while frame 0 was the current one and so before its last submission, and
\* leaves the stale deque empty.
C9_Witness ==
    /\ flast.op = "acquire"
    /\ flast.frame = 0
    /\ attached = <<0, 0>>
    /\ flast.killed = {1, 2}
    /\ destroyed = {1, 2}
    /\ stales = <<>>
    /\ pFrame = flast.frame

\* C10: resolving is idempotent: for every reference, with a valid chain or
\* failing validation, resolving what a resolve returned returns it again.
C10_ResolveIdempotent == rpc = "again" => rout2 = rout

\* A group buffer reference with an offset was resolved through a primitive
\* to the buffer at the end of the chain, the offsets added up, and that
\* buffer reference was resolved again.
C10_Witness ==
    /\ rpc = "again"
    /\ rin.type = "GROUP_BUFFER"
    /\ rin.offset > 0
    /\ rout.type = "BUFFER"
    /\ rout.offset = rin.offset + 2
    /\ rout2 = rout

\* C11 as stated: the value unpack returns for a buffer reference is a byte
\* offset within the buffer it unpacks to, also when the offset of the
\* reference is out of bounds.
C11_AsStated ==
    (rpc = "unpacked" /\ runp.buffer # Null) =>
        runp.value < OwnerSize(runp.buffer)

\* The records of the table that pass the type and order, feature mask and
\* depth flag filters of the call.
FuzzyCandidates ==
    {formats[f] : f \in {g \in DOMAIN formats :
        /\ TypeOrderMatch(formats[g].fmt, fquery.fmt)
        /\ fquery.features \subseteq GetFeatures(formats[g].props)
        /\ "MIN_DEPTH" \in fquery.flags =>
             \A k \in 1..4 : formats[g].fmt.comps[k] >= fquery.fmt.comps[k]
        /\ "MAX_DEPTH" \in fquery.flags =>
             \A k \in 1..4 : formats[g].fmt.comps[k] <= fquery.fmt.comps[k]}}

\* The candidates that contain the requested format.
FuzzyContaining ==
    {e \in FuzzyCandidates : IsContained(fdepth, e.fmt, fquery.fmt)}

\* fret is the format of a record of S that is nearest to the request in S.
NearestOf(S) ==
    \E e \in S :
        /\ fret = e.fmt
        /\ \A o \in S :
             GetDistance(e.fmt, fquery.fmt) <= GetDistance(o.fmt, fquery.fmt)

\* C12: gfx_format_fuzzy returns the nearest of the candidates that contain
\* the requested format when there is one, else the nearest candidate, and
\* the empty format when there is no candidate.
C12_FuzzyContainment ==
    xpc = "done" =>
        IF FuzzyCandidates = {} THEN fret = GFX_FORMAT_EMPTY
        ELSE IF FuzzyContaining # {} THEN NearestOf(FuzzyContaining)
        ELSE NearestOf(FuzzyCandidates)

\* A containing record was returned although another candidate is nearer.
C12_Witness ==
    /\ xpc = "done"
    /\ FuzzyContaining # {}
    /\ \E o \in FuzzyCandidates \ FuzzyContaining :
         GetDistance(o.fmt, fquery.fmt) < GetDistance(fret, fquery.fmt)

\* The records that match the type, order and features of the call.
FuzzyMatching ==
    {formats[f] : f \in {g \in DOMAIN formats :
        /\ TypeOrderMatch(formats[g].fmt, fquery.fmt)
        /\ fquery.features \subseteq GetFeatures(formats[g].props)}}

\* Format fmt keeps the depth bounds that the call asks for.
WithinDepthBounds(fmt) ==
    /\ "MIN_DEPTH" \in fquery.flags =>
         \A k \in 1..4 : fmt.comps[k] >= fquery.fmt.comps[k]
    /\ "MAX_DEPTH" \in fquery.flags =>
         \A k \in 1..4 : fmt.comps[k] <= fquery.fmt.comps[k]

\* C13: a format returned by gfx_format_fuzzy keeps the requested depth
\* bounds in every channel, and when every record that matches type, order
\* and features breaks a bound, no record is returned.
C13_FuzzyDepthBounds ==
    xpc = "done" =>
        /\ fret # GFX_FORMAT_EMPTY => WithinDepthBounds(fret)
        /\ (\A e \in FuzzyMatching : ~WithinDepthBounds(e.fmt)) =>
             fret = GFX_FORMAT_EMPTY

\* Depths of 10 were asked for as a minimum: the 16-bit record was returned
\* although the 8-bit one is nearer.
C13_Witness ==
    /\ xpc = "done"
    /\ fquery.flags = {"MIN_DEPTH"}
    /\ fquery.fmt.comps = <<10, 10, 10, 10>>
    /\ fret.comps = <<16, 16, 16, 16>>
    /\ \E e \in FuzzyMatching : e.fmt.comps = <<8, 8, 8, 8>>

\* C14: after _gfx_render_graph_build the pass at position i of the pass
\* vector has order i, for a first build and for a build after an
\* invalidate alike.
C14_OrderIsPosition ==
    glast.op = "build" =>
        \A i \in DOMAIN passes : pass[passes[i]].order = i - 1

\* A build that follows an invalidate, of a graph whose third pass was
\* inserted in front of the second: the orders follow the positions.
C14_Witness ==
    /\ glast.op = "build"
    /\ glast.inval
    /\ passes = <<1, 3, 2>>
    /\ pass[2].order = 2
    /\ pass[3].order = 1
    /\ pass[2].built

\* C15: the pass vector is sorted by level, and passes of one level stand in
\* the order in which they were added (pass ids count the additions).
C15_SortedStable ==
    \A i, j \in DOMAIN passes :
        i < j =>
            /\ pass[passes[i]].level <= pass[passes[j]].level
            /\ pass[passes[i]].level = pass[passes[j]].level
                 => passes[i] < passes[j]

\* A, B(A), C(A), D(B, C) were added and stand as [A, B, C, D].
C15_Witness ==
    /\ Len(pass) = 4
    /\ pass[1].parents = {}
    /\ pass[2].parents = {1}
    /\ pass[3].parents = {1}
    /\ pass[4].parents = {2, 3}
    /\ passes = <<1, 2, 3, 4>>

\* C16: a gfx_renderer_add_pass that fails leaves the sinks, the pass vector,
\* the graph state and the passes as they were, so the pass it tried to add
\* is in neither container and does not exist.
C16_FailedAddAtomic ==
    [][(glast'.op = "add_pass" /\ ~glast'.ok) =>
          /\ sinks' = sinks
          /\ passes' = passes
          /\ gstate' = gstate
          /\ pass' = pass]_vars

\* An add_pass failed on a warmed graph of two sinks.
C16_Witness ==
    /\ glast = Last("add_pass", FALSE)
    /\ gstate = GRAPH_WARMED
    /\ Len(passes) = 2
    /\ Len(sinks) = 2

\* Frame f is held: acquired and not yet submitted.
Held(f) == pFrame = f

\* The number of times frame f stands in the deque.
InDeque(f) == Cardinality({k \in DOMAIN frames : frames[k] = f})

\* C17: acquire and submit alternate for every frame.  A frame is acquired
\* only while it is not held, and submitted only while it is held; a frame
\* whose acquire has returned has had its done fence waited on; and every
\* frame is either held or stands once in the deque, idle or in flight.
C17_AcquireSubmitAlternate ==
    /\ [][flast'.op = "acquire" =>
            ~Held(flast'.frame) /\ pFrame' = flast'.frame]_vars
    /\ [][flast'.op = "submit" =>
            /\ Held(flast'.frame) /\ pFrame' # flast'.frame
            /\ fpc = "acquired"
            /\ done'[flast'.frame] = "pending"]_vars
    /\ [](fpc = "acquired" => done[pFrame] = "signaled")
    /\ [](\A f \in FrameIdx : InDeque(f) + (IF Held(f) THEN 1 ELSE 0) = 1)

\* Frame 0 is acquired for the second time, its fence waited on, while frame
\* 1, submitted after it, is still in flight.
C17_Witness ==
    /\ fpc = "acquired"
    /\ pFrame = 0
    /\ flast.op = "synced"
    /\ frames = <<1>>
    /\ done[1] = "pending"

\* C18: the acquire that finds a swapchain out of date completes only through
\* the step that rebuilds the backing and the passes, and at that step, the
\* only one that rebuilds passes, no frame is in flight.
C18_RecreateAfterSync ==
    /\ [][((flast'.op = "recreate" /\ flast' # flast)
            \/ (glast'.op = "rebuild" /\ <<glast, pass>>' # <<glast, pass>>)) =>
            /\ \A f \in FrameIdx : done[f] = "signaled"
            /\ fpc = "recreate"]_vars
    /\ [][(fpc = "recreate" /\ fpc' # "recreate") =>
            flast'.op = "recreate" /\ glast'.op = "rebuild"]_vars

\* The swapchain was recreated while acquiring frame 0: frame 1, submitted
\* before, is no longer in flight, and pass 1, which writes to the window,
\* was built again.
C18_Witness ==
    /\ flast.op = "recreate"
    /\ glast.op = "rebuild"
    /\ pFrame = 0
    /\ frames = <<1>>
    /\ done[1] = "signaled"
    /\ Len(pass) = 2
    /\ pass[1].built /\ pass[1].backing = 0
    /\ gstate = GRAPH_BUILT

C20_AsStated ==
    [][(glast'.op = "build" /\ ~glast'.ok) => gstate' = GRAPH_VALIDATED]_vars

\* The passes an operation made the call on, from its trace.
Called(tr, call) == {tr[k].pass : k \in {j \in DOMAIN tr : tr[j].call = call}}

\* The trace makes the call once on each pass of S, with flags, and makes no
\* other call.
CallsExactly(tr, call, S, flags) ==
    /\ Len(tr) = Cardinality(S)
    /\ Called(tr, call) = S
    /\ \A k \in DOMAIN tr : tr[k].call = call /\ tr[k].flags = flags

\* C21 as stated: rebuild(index, flags) calls the pass build with flags on
\* every pass whose build.backing is index and on no other.
C21_AsStated ==
    [][glast'.op = "rebuild" =>
          CallsExactly(glast'.trace, "build",
                       {i \in DOMAIN pass : pass[i].backing = glast'.arg[1]},
                       glast'.arg[2])]_vars

\* C21: in state WARMED or BUILT rebuild(index, flags) calls the pass build
\* with flags on every pass whose build.backing is index and on no other; in
\* a lower state it calls nothing.
C21_RebuildCalls ==
    [][glast'.op = "rebuild" =>
          IF gstate >= GRAPH_WARMED
          THEN CallsExactly(glast'.trace, "build",
                            {i \in DOMAIN pass : pass[i].backing = glast'.arg[1]},
                            glast'.arg[2])
          ELSE glast'.trace = <<>>]_vars

\* A rebuild of window 0 on resize built the first and third pass again and
\* not the second.
C21_Witness ==
    /\ glast.op = "rebuild"
    /\ glast.arg = <<0, {"RECREATE", "RESIZE"}>>
    /\ Len(pass) = 3
    /\ Called(glast.trace, "build") = {1, 3}
    /\ pass[2].built

\* C22: rebuild leaves the pass vector, the sinks and the orders alone and
\* destructs nothing; it never raises the state and changes it exactly when a
\* pass it built failed, to VALIDATED.
C22_RebuildNoPurge ==
    [][glast'.op = "rebuild" =>
          LET failed == {i \in Called(glast'.trace, "build") : ~pass'[i].built}
          IN /\ passes' = passes /\ sinks' = sinks
             /\ \A i \in DOMAIN pass : pass'[i].order = pass[i].order
             /\ Called(glast'.trace, "destruct") = {}
             /\ gstate' <= gstate
             /\ gstate' # gstate <=> failed # {}
             /\ failed # {} => gstate' = GRAPH_VALIDATED]_vars

\* A rebuild in which the third pass failed left a built graph VALIDATED, with
\* its pass vector as it was.
C22_Witness ==
    /\ glast.op = "rebuild"
    /\ gstate = GRAPH_VALIDATED
    /\ passes = <<1, 3, 2>>
    /\ pass[1].built /\ pass[2].built /\ ~pass[3].built
    /\ pass[3].order = 1

\* C23: destruct(index) destructs the passes whose build.backing is index and
\* builds none; if there is such a pass, WARMED and BUILT become VALIDATED and
\* lower states stay; if there is none, the state and the passes stay.
C23_Destruct ==
    [][glast'.op = "destruct" =>
          LET M == {i \in DOMAIN pass : pass[i].backing = glast'.arg[1]}
          IN /\ CallsExactly(glast'.trace, "destruct", M, {})
             /\ \A i \in M : ~pass'[i].warm /\ ~pass'[i].built
             /\ \A i \in DOMAIN pass \ M : pass'[i] = pass[i]
             /\ gstate' = IF M # {} /\ gstate >= GRAPH_WARMED
                          THEN GRAPH_VALIDATED ELSE gstate
             /\ M = {} => pass' = pass]_vars

\* A destruct of window 0 took down the first pass of a built graph and left
\* the second, which writes to no window.
C23_Witness ==
    /\ glast.op = "destruct"
    /\ glast.arg[1] = 0
    /\ gstate = GRAPH_VALIDATED
    /\ Len(pass) = 2
    /\ ~pass[1].built /\ ~pass[1].warm
    /\ pass[2].built

\* C24 as stated: invalidate sets INVALID when the graph holds a pass and
\* leaves the state alone when it holds none.
C24_AsStated ==
    [][glast'.op = "invalidate" =>
          gstate' = IF Len(passes) > 0 THEN GRAPH_INVALID ELSE gstate]_vars

\* C24: invalidate sets INVALID when the state is not EMPTY and leaves an
\* EMPTY state alone; it touches nothing else.
C24_Invalidate ==
    [][glast'.op = "invalidate" =>
          /\ gstate' = IF gstate # GRAPH_EMPTY THEN GRAPH_INVALID ELSE GRAPH_EMPTY
          /\ UNCHANGED <<passes, sinks, pass>>]_vars

\* A graph without passes was invalidated and is INVALID.
C24_Witness ==
    /\ glast.op = "invalidate"
    /\ gstate = GRAPH_INVALID
    /\ Len(passes) = 0

\* C25: a warmup or build that finds the state INVALID first destructs every
\* pass, then analyzes, and only then warms up or builds passes; a pass that
\* then fails to warm up is left without any backend object.
C25_PurgeFirst ==
    [][(glast'.op \in {"warmup", "build"} /\ gstate = GRAPH_INVALID) =>
          LET tr == glast'.trace
              n == Len(passes)
          IN /\ Len(tr) = 2 * n + 1
             /\ \A k \in 1..n : tr[k] = Ev("destruct", passes[k], {})
             /\ tr[n + 1].call = "analyze"
             /\ \A k \in 1..n :
                  tr[n + 1 + k] = Ev(glast'.op, passes[k], {})
             /\ glast'.op = "warmup" =>
                  \A i \in DOMAIN pass :
                      ~pass'[i].built /\ pass'[i].backing = NoBacking]_vars

\* A warmup of an invalidated graph whose two passes had been built: both
\* were destructed first and are warmed up, not built.
C25_Witness ==
    /\ glast.op = "warmup" /\ glast.ok
    /\ Len(pass) = 2
    /\ Len(glast.trace) = 5
    /\ glast.trace[1].call = "destruct"
    /\ glast.trace[3].call = "analyze"
    /\ \A i \in DOMAIN pass : pass[i].warm /\ ~pass[i].built
    /\ pass[2].order = 1

\* C26: a warmup of a graph that is WARMED or BUILT, and a build of a graph
\* that is BUILT, succeed without a call on any pass and change neither the
\* state nor the pass vector nor any pass.
C26_Idempotent ==
    [][((glast'.op = "warmup" /\ gstate >= GRAPH_WARMED)
          \/ (glast'.op = "build" /\ gstate = GRAPH_BUILT)) =>
          /\ glast'.ok
          /\ glast'.trace = <<>>
          /\ UNCHANGED <<gstate, passes, sinks, pass>>]_vars

\* A warmup was called on a graph of two passes that was warmed up, not
\* built, and it still is.
C26_Witness ==
    /\ glast.op = "warmup"
    /\ glast.trace = <<>>
    /\ gstate = GRAPH_WARMED
    /\ Len(pass) = 2
    /\ \A i \in DOMAIN pass : pass[i].warm /\ ~pass[i].built

\* C27 as stated: after a successful warmup of a graph that was never built,
\* the pass at position i of the pass vector has order i.
C27_AsStated ==
    (/\ glast.op = "warmup" /\ glast.ok /\ gstate = GRAPH_WARMED
     /\ \A i \in DOMAIN pass : ~pass[i].built) =>
        \A i \in DOMAIN passes : pass[passes[i]].order = i - 1

\* C27: warmup leaves the order of every pass as it was; only build assigns
\* it.
C27_WarmupKeepsOrder ==
    [][glast'.op = "warmup" =>
          \A i \in DOMAIN pass : pass'[i].order = pass[i].order]_vars

\* A graph of two passes that was never built is warmed up: the second pass
\* has the order it was created with, not its position.
C27_Witness ==
    /\ glast.op = "warmup" /\ glast.ok
    /\ gstate = GRAPH_WARMED
    /\ passes = <<1, 2>>
    /\ pass[2].warm
    /\ pass[2].order = 0

\* C28: clear destroys the passes from the back of the pass vector to its
\* front, and no pass is destroyed while a pass destroyed after it, alive at
\* that moment, has it as a parent.
C28_ClearReverse ==
    [][glast'.op = "clear" =>
          LET tr == glast'.trace
              n == Len(passes)
          IN /\ Len(tr) = n
             /\ \A k \in 1..n : tr[k] = Ev("destroy", passes[n + 1 - k], {})
             /\ \A a, b \in 1..n :
                  a < b => tr[a].pass \notin pass[tr[b].pass].parents
             /\ passes' = <<>> /\ sinks' = <<>>]_vars

\* A graph of four passes was cleared; the pass destroyed second had been
\* created after the pass destroyed first.
C28_Witness ==
    /\ glast.op = "clear"
    /\ Len(glast.trace) = 4
    /\ glast.trace[1].pass < glast.trace[2].pass
    /\ passes = <<>>

\* Pass i holds backend objects: a render pass, framebuffers or a backing.
HoldsObjects(r) == r.warm \/ r.built \/ r.backing # NoBacking

\* C29: in state EMPTY no pass holds backend objects, and the first warmup
\* or build after an add_pass destructs every pass that holds some before it
\* warms up or builds any.
C29_EditedGraphIsPurged ==
    /\ [](gstate = GRAPH_EMPTY => \A i \in DOMAIN pass : ~HoldsObjects(pass[i]))
    /\ [][(glast'.op \in {"warmup", "build"} /\ gedit.active) =>
            LET tr == glast'.trace
                held == {i \in DOMAIN pass : HoldsObjects(pass[i])}
            IN \A i \in held :
                 \E a \in DOMAIN tr :
                    /\ tr[a] = Ev("destruct", i, {})
                    /\ \A b \in 1..(a - 1) : tr[b].call = "destruct"]_vars

\* A pass was added behind a built one and the graph was built next: the
\* built pass was destructed first.
C29_Witness ==
    /\ glast.op = "build" /\ glast.ok /\ ~glast.inval
    /\ Len(pass) = 2
    /\ pass[2].order = 1
    /\ Len(glast.trace) = 5
    /\ glast.trace[1] = Ev("destruct", 1, {})
    /\ glast.trace[4] = Ev("build", 1, {})

\* C30 as stated: an index reference with offset o that unpacks to the
\* primitive's own buffer has value o + numVertices * stride when the vertex
\* reference of the primitive is null, and o when it is not.
C30_AsStated ==
    (/\ rpc = "unpacked"
     /\ rin.type = "PRIMITIVE_INDICES"
     /\ runp.buffer = PrimBuffer(rin.obj)) =>
        LET p == Primitives[rin.obj]
        IN runp.value =
             rin.offset + (IF GFX_REF_IS_NULL(p.refVertex)
                           THEN p.numVertices * p.stride ELSE 0)

\* The reference is invalid where it stands: it names the vertices of a
\* primitive without vertices, the indices of a primitive without indices, a
\* binding or an element of a group that is not there, a binding of the other
\* type, or an attachment that is not there or is not backed by an image.
InvalidRef(ref) ==
    \/ /\ ref.type = "PRIMITIVE_VERTICES"
       /\ Primitives[ref.obj].numVertices = 0
    \/ /\ ref.type = "PRIMITIVE_INDICES"
       /\ Primitives[ref.obj].numIndices = 0
    \/ /\ ref.type \in {"GROUP_BUFFER", "GROUP_IMAGE"}
       /\ LET g == Groups[ref.obj]
          IN \/ ref.values[1] >= g.numBindings
             \/ ref.values[2] >= g.bindings[ref.values[1] + 1].count
             \/ /\ ref.type = "GROUP_BUFFER"
                /\ g.bindings[ref.values[1] + 1].type # "BUFFER"
             \/ /\ ref.type = "GROUP_IMAGE"
                /\ g.bindings[ref.values[1] + 1].type # "IMAGE"
    \/ /\ ref.type = "ATTACHMENT"
       /\ \/ ref.values[1] >= Len(Attachs)
          \/ Attachs[ref.values[1] + 1] # "ATTACH_IMAGE"

\* C31: resolve returns the null reference for every invalid composite
\* reference, and unpack of such a reference returns the empty unpacked
\* reference, with no buffer, image or renderer set.
C31_InvalidIsNull ==
    InvalidRef(rin) =>
        /\ rpc \in {"resolved", "again"} => rout = GFX_REF_NULL
        /\ rpc = "unpacked" => runp = UnpackRef(Null, Null, Null, 0)

\* A reference to the window attachment of the renderer was unpacked: the
\* index is in range, the attachment is not an image, the result is empty.
C31_Witness ==
    /\ rpc = "unpacked"
    /\ rin.type = "ATTACHMENT"
    /\ rin.values[1] < Len(Attachs)
    /\ Attachs[rin.values[1] + 1] = "ATTACH_WINDOW"
    /\ runp.renderer = Null /\ runp.buffer = Null /\ runp.image = Null

\* The resource an unpacked reference names: a buffer, an image, or an
\* attachment of a renderer; nothing when it is empty.
Named(unp) ==
    IF unp.buffer # Null THEN <<"buffer", unp.buffer>>
    ELSE IF unp.image # Null THEN <<"image", unp.image>>
    ELSE IF unp.renderer # Null THEN <<"attachment", unp.renderer, unp.value>>
    ELSE <<>>

\* C32: two unpacked references compare equal exactly when they name the
\* same buffer, the same image, or the same attachment index of the same
\* renderer; buffer offsets do not count, the comparison gives the same in
\* either order, and an empty unpacked reference equals nothing, itself
\* included.
C32_Equality ==
    cmp.pc = "compared" =>
        /\ cmp.ab = (Named(cmp.ua) # <<>> /\ Named(cmp.ua) = Named(cmp.ub))
        /\ cmp.ab = cmp.ba
        /\ (cmp.ua.buffer # Null /\ cmp.ua.buffer = cmp.ub.buffer) => cmp.ab
        /\ (Named(cmp.ua) = <<>> \/ Named(cmp.ub) = <<>>) => ~cmp.ab

\* Two references into one buffer at different offsets compared equal.
C32_Witness ==
    /\ cmp.pc = "compared"
    /\ cmp.ua.buffer # Null
    /\ cmp.ua.buffer = cmp.ub.buffer
    /\ cmp.ua.value # cmp.ub.value
    /\ cmp.ab /\ cmp.ba

\* Record f of the device contains the requested format and covers the
\* requested minimal properties.
Qualifies(f) ==
    /\ IsContained(fdepth, formats[f].fmt, fquery.fmt)
    /\ fquery.props.given =>
          /\ fquery.props.linear \subseteq formats[f].props.linear
          /\ fquery.props.optimal \subseteq formats[f].props.optimal
          /\ fquery.props.buffer \subseteq formats[f].props.buffer

\* The L1 distance of the channel depths of record f to the request.
L1(f) ==
    LET a == formats[f].fmt.comps
        b == fquery.fmt.comps
        abs(x) == IF x < 0 THEN -x ELSE x
    IN abs(a[1] - b[1]) + abs(a[2] - b[2]) + abs(a[3] - b[3]) + abs(a[4] - b[4])

\* C33: format resolve returns, among the records of the device that contain
\* the requested format and cover the requested minimal properties, the
\* first in table order of those at the smallest L1 distance of the channel
\* depths; when no record qualifies it returns the undefined backend format
\* and sets the format to empty.
C33_ResolveClosest ==
    xpc = "done" =>
        LET Q == {f \in DOMAIN formats : Qualifies(f)}
        IN IF Q = {}
           THEN fret = [vk |-> VK_FORMAT_UNDEFINED, fmt |-> GFX_FORMAT_EMPTY]
           ELSE \E f \in Q :
                   /\ \A g \in Q : L1(f) <= L1(g)
                   /\ \A g \in Q : L1(g) = L1(f) => f <= g
                   /\ fret = [vk |-> formats[f].vk, fmt |-> formats[f].fmt]

\* Three records qualified, the first further from the request than the two
\* behind it, which are equally close: the second was returned.
C33_Witness ==
    /\ xpc = "done"
    /\ Len(formats) = 3
    /\ \A f \in 1..3 : Qualifies(f)
    /\ L1(1) > L1(2) /\ L1(2) = L1(3)
    /\ fret.vk = formats[2].vk

\* The layouts made for one kind of use.
SpecialisedLayouts ==
    {"VK_IMAGE_LAYOUT_TRANSFER_SRC_OPTIMAL",
     "VK_IMAGE_LAYOUT_TRANSFER_DST_OPTIMAL",
     "VK_IMAGE_LAYOUT_SHADER_READ_ONLY_OPTIMAL",
     "VK_IMAGE_LAYOUT_COLOR_ATTACHMENT_OPTIMAL",
     "VK_IMAGE_LAYOUT_DEPTH_STENCIL_READ_ONLY_OPTIMAL",
     "VK_IMAGE_LAYOUT_DEPTH_STENCIL_ATTACHMENT_OPTIMAL"}

\* The accesses an image in a layout may be put to, for a colour format and
\* for a depth/stencil format (ds).
LayoutAllows(layout, ds) ==
    CASE layout = "VK_IMAGE_LAYOUT_GENERAL" -> AccessBits
      [] layout = "VK_IMAGE_LAYOUT_TRANSFER_SRC_OPTIMAL" -> {"TRANSFER_READ"}
      [] layout = "VK_IMAGE_LAYOUT_TRANSFER_DST_OPTIMAL" -> {"TRANSFER_WRITE"}
      [] layout = "VK_IMAGE_LAYOUT_SHADER_READ_ONLY_OPTIMAL" ->
           {"SAMPLED_READ", "ATTACHMENT_INPUT"}
      [] layout = "VK_IMAGE_LAYOUT_COLOR_ATTACHMENT_OPTIMAL" ->
           IF ds THEN {} ELSE {"ATTACHMENT_READ", "ATTACHMENT_WRITE"}
      [] layout = "VK_IMAGE_LAYOUT_DEPTH_STENCIL_READ_ONLY_OPTIMAL" ->
           IF ds THEN {"SAMPLED_READ", "ATTACHMENT_INPUT", "ATTACHMENT_READ"}
           ELSE {}
      [] layout = "VK_IMAGE_LAYOUT_DEPTH_STENCIL_ATTACHMENT_OPTIMAL" ->
           IF ds THEN {"ATTACHMENT_READ", "ATTACHMENT_WRITE"} ELSE {}
      [] OTHER -> {}

\* Some specialised layout allows every access of the mask.
OneLayoutAllows(mask, ds) ==
    \E l \in SpecialisedLayouts : (mask \cap AccessBits) \subseteq LayoutAllows(l, ds)

\* C34 as stated: the layout chosen allows every access bit of the mask and
\* is a specialised one whenever a single specialised layout allows them all;
\* the general layout is chosen only for masks that mix accesses, the
\* undefined layout only for the empty mask.
C34_AsStated ==
    acc.pc = "done" =>
        /\ (acc.mask \cap AccessBits) \subseteq LayoutAllows(acc.layout, acc.ds)
        /\ (acc.mask # {} /\ OneLayoutAllows(acc.mask, acc.ds)) =>
              acc.layout \in SpecialisedLayouts
        /\ acc.layout = "VK_IMAGE_LAYOUT_GENERAL" =>
              Cardinality(acc.mask \cap AccessBits) >= 2
        /\ acc.layout = "VK_IMAGE_LAYOUT_UNDEFINED" => acc.mask = {}

\* C34: the layout chosen allows every access bit of the mask; for a mask
\* that is not empty it is a specialised layout exactly when a single
\* specialised layout allows every access bit, and the general layout
\* otherwise, which includes masks of one access that no specialised layout
\* allows; it is the undefined layout exactly for the empty mask.
C34_Layout ==
    acc.pc = "done" =>
        /\ (acc.mask \cap AccessBits) \subseteq LayoutAllows(acc.layout, acc.ds)
        /\ acc.mask # {} =>
              IF OneLayoutAllows(acc.mask, acc.ds)
              THEN acc.layout \in SpecialisedLayouts
              ELSE acc.layout = "VK_IMAGE_LAYOUT_GENERAL"
        /\ acc.layout = "VK_IMAGE_LAYOUT_UNDEFINED" <=> acc.mask = {}

\* A mask of one access, a storage write of a discarded image, was mapped:
\* no specialised layout allows it and the general layout was chosen.
C34_Witness ==
    /\ acc.pc = "done"
    /\ acc.mask = {"STORAGE_WRITE", "DISCARD"}
    /\ acc.layout = "VK_IMAGE_LAYOUT_GENERAL"

\* The pipeline stages of one bit of an access mask, under a shader stage
\* hint and a format class.
StagesOfBit(b, hint, ds) ==
    CASE b \in {"VERTEX_READ", "INDEX_READ"} -> {"VK_PIPELINE_STAGE_VERTEX_INPUT"}
      [] b = "INDIRECT_READ" -> {"VK_PIPELINE_STAGE_DRAW_INDIRECT"}
      [] b \in {"UNIFORM_READ", "SAMPLED_READ", "STORAGE_READ", "STORAGE_WRITE"} ->
           {ShaderPipelineStage(st) :
               st \in IF hint = {} THEN ShaderStages ELSE hint}
      [] b = "ATTACHMENT_INPUT" -> {"VK_PIPELINE_STAGE_FRAGMENT_SHADER"}
      [] b \in {"ATTACHMENT_READ", "ATTACHMENT_WRITE"} ->
           IF ds THEN {"VK_PIPELINE_STAGE_EARLY_FRAGMENT_TESTS",
                       "VK_PIPELINE_STAGE_LATE_FRAGMENT_TESTS"}
           ELSE {"VK_PIPELINE_STAGE_COLOR_ATTACHMENT_OUTPUT"}
      [] b \in {"TRANSFER_READ", "TRANSFER_WRITE"} -> {"VK_PIPELINE_STAGE_TRANSFER"}
      [] b \in {"HOST_READ", "HOST_WRITE"} -> {"VK_PIPELINE_STAGE_HOST"}
      [] OTHER -> {}

\* C35: the pipeline stages of an access mask are the union of the stages
\* of its bits, where the bits a shader accesses (uniform, sampled, storage)
\* stand for exactly the hinted shader stages, or for all six when the hint is
\* empty; a transfer write maps to the transfer-write access at the transfer
\* stage and a vertex read to the vertex-attribute-read access at the
\* vertex-input stage.
C35_Stages ==
    acc.pc = "done" =>
        /\ acc.stages = UNION {StagesOfBit(b, acc.stage, acc.ds) : b \in acc.mask}
        /\ "TRANSFER_WRITE" \in acc.mask =>
              /\ "VK_ACCESS_TRANSFER_WRITE" \in acc.access
              /\ "VK_PIPELINE_STAGE_TRANSFER" \in acc.stages
        /\ "VERTEX_READ" \in acc.mask =>
              /\ "VK_ACCESS_VERTEX_ATTRIBUTE_READ" \in acc.access
              /\ "VK_PIPELINE_STAGE_VERTEX_INPUT" \in acc.stages
        /\ acc.mask = {"TRANSFER_WRITE"} =>
              /\ acc.access = {"VK_ACCESS_TRANSFER_WRITE"}
              /\ acc.stages = {"VK_PIPELINE_STAGE_TRANSFER"}
        /\ acc.mask = {"VERTEX_READ"} =>
              /\ acc.access = {"VK_ACCESS_VERTEX_ATTRIBUTE_READ"}
              /\ acc.stages = {"VK_PIPELINE_STAGE_VERTEX_INPUT"}

\* A sampled read and a transfer write were mapped without a hint: all six
\* shader stages and the transfer stage.
C35_Witness ==
    /\ acc.pc = "done"
    /\ acc.mask = {"SAMPLED_READ", "TRANSFER_WRITE"}
    /\ acc.stage = {}
    /\ Cardinality(acc.stages) = 7
    /\ "VK_PIPELINE_STAGE_TRANSFER" \in acc.stages

\* The stage of sync object k in vector v; a sync object not pushed yet
\* counts as unused.
StageOf(v, k) == IF k \in DOMAIN v THEN v[k].stage ELSE SYNC_UNUSED

\* The steps of the life of a sync object, each with the call that takes it.
SyncEdges ==
    {<<SYNC_UNUSED, SYNC_PREPARE, "prepare">>,
     <<SYNC_PREPARE, SYNC_PREPARE_CATCH, "catch">>,
     <<SYNC_PREPARE, SYNC_PENDING, "finish">>,
     <<SYNC_PREPARE_CATCH, SYNC_PENDING, "finish">>,
     <<SYNC_PREPARE, SYNC_UNUSED, "abort">>,
     <<SYNC_PREPARE_CATCH, SYNC_UNUSED, "abort">>,
     <<SYNC_PENDING, SYNC_CATCH, "catch">>,
     <<SYNC_CATCH, SYNC_USED, "finish">>,
     <<SYNC_USED, SYNC_UNUSED, "catch">>}

\* C36: under any sequence of catch, prepare, finish and abort a sync object
\* changes stage only along UNUSED -> PREPARE (prepare), PREPARE ->
\* PREPARE_CATCH (catch of the owning injection), PREPARE or PREPARE_CATCH ->
\* PENDING (finish) or -> UNUSED (abort), PENDING -> CATCH (catch), CATCH ->
\* USED (finish), USED -> UNUSED (recycled); and after the finish or abort
\* of an injection no sync object it claims is in PREPARE or PREPARE_CATCH.
C36_Lifecycle ==
    [][/\ \A k \in DOMAIN syncs' :
            \/ StageOf(syncs, k) = syncs'[k].stage
            \/ /\ <<StageOf(syncs, k), syncs'[k].stage, dlast'.op>> \in SyncEdges
               /\ syncs'[k].stage = SYNC_PREPARE_CATCH =>
                     syncs[k].inj = dlast'.inj
               /\ StageOf(syncs, k) \in {SYNC_PREPARE, SYNC_PREPARE_CATCH} =>
                     syncs[k].inj = dlast'.inj
       /\ Len(syncs') >= Len(syncs)
       /\ dlast'.op \in {"finish", "abort"} =>
            \A k \in DOMAIN syncs' :
               ~(/\ syncs'[k].inj = dlast'.inj
                 /\ syncs'[k].stage \in {SYNC_PREPARE, SYNC_PREPARE_CATCH})]_vars

\* A sync object has gone the whole way: prepared and finished by one
\* injection, caught by another whose finish has just made it used.
C36_Witness ==
    /\ dlast.op = "finish"
    /\ \E k \in DOMAIN syncs :
          /\ syncs[k].stage = SYNC_USED
          /\ syncs[k].inj = NoInj

\* C37: under any interleaving of threads that run catch, prepare, finish
\* and abort on one dependency with distinct injections, a pending signal
\* is caught by at most one injection: its semaphore is appended to the wait
\* list of at most one operation and its barrier is recorded at most once.
C37_CaughtOnce ==
    \A k \in Slots :
        /\ Cardinality(thr.by[k]) <= 1
        /\ thr.sems[k] <= 1
        /\ thr.bars[k] <= 1
        /\ Cardinality({i \in Injs : k \in thr.job[i]}) + thr.bars[k] <= 1
        /\ Cardinality({i \in Injs :
                            \E x \in DOMAIN inj[i].waits :
                                inj[i].waits[x].sem = k}) <= 1

\* One thread has taken a pending signal with its semaphore and recorded
\* the barrier, and the other thread has since caught on the same range,
\* finding nothing.
C37_Witness ==
    \E k \in Slots, i, j \in Injs :
        /\ i # j
        /\ k \in DOMAIN syncs
        /\ syncs[k].stage = SYNC_CATCH /\ syncs[k].inj = i
        /\ thr.by[k] = {i} /\ thr.sems[k] = 1 /\ thr.bars[k] = 1
        /\ dlast.op = "catch" /\ dlast.inj = j
        /\ SyncMatches(syncs[k], dlast.arg)
        /\ dlast.barriers = <<>>

\* The nodes a map holds, in bucket order.
Stored(m) == Flat(maps[m].buckets, 1)

\* C38: after any sequence of inserts, erases, moves with or without a new
\* key, merges, reserves and shrinks, search(key) returns an element, and one
\* with that key, exactly when an element with that key is stored in the
\* map; no node was lost or duplicated, size is the number of nodes stored,
\* and every node sits in the bucket of its stored hash modulo the capacity.
C38_Membership ==
    \A m \in MapIds :
        /\ Len(maps[m].buckets) = maps[m].capacity
        /\ maps[m].size = Len(Stored(m))
        /\ \A k \in Keys :
              /\ cnt[m][k] = Len(SelectSeq(Stored(m), LAMBDA n : n.key = k))
              /\ Search(maps[m], k) # NoNode <=> cnt[m][k] > 0
              /\ Search(maps[m], k) # NoNode => Search(maps[m], k).key = k
        /\ \A b \in 1..maps[m].capacity :
              \A p \in 1..Len(maps[m].buckets[b]) :
                 BucketOf(maps[m].buckets[b][p].hash, maps[m].capacity) = b

\* The last node of map A was moved to map B, which hashes differently and
\* was grown to eight buckets before: A is left without buckets, B holds
\* three nodes in one chain and finds both keys, and a search for k2 passes
\* over a node of k1 with the same hash.
C38_Witness ==
    /\ mlast.from = "A" /\ mlast.into = "B"
    /\ maps["A"].capacity = 0
    /\ maps["B"].size = 3 /\ maps["B"].capacity = 8
    /\ maps["B"].buckets[3][1].key = "k1"
    /\ Search(maps["B"], "k1") = Node("k1", 2)
    /\ Search(maps["B"], "k2") = Node("k2", 2)

\* C39: after every successful insert, reserve, merge or move into a map
\* the map holds at most 0.75 times its capacity in nodes, and a call whose
\* growth failed has left size, capacity and contents of both maps as they
\* were.
C39_LoadFactor ==
    [][/\ (mlast.into # "none")' =>
              (4 * maps[mlast.into].size <= 3 * maps[mlast.into].capacity)'
       /\ (~mlast.ok)' => maps' = maps /\ cnt' = cnt]_vars

\* Map A was grown from four buckets to eight with its three nodes in it,
\* which parted the two keys, and the call after that got no memory.
C39_Witness ==
    /\ ~mlast.ok
    /\ maps["A"].size = 3 /\ maps["A"].capacity = 8
    /\ maps["A"].buckets[2] # <<>> /\ maps["A"].buckets[6] # <<>>

\* The map is empty and has no buckets, or holds at least a quarter of its
\* capacity in nodes.
ShrunkEnough(map) ==
    \/ map.size = 0 /\ map.capacity = 0
    \/ 4 * map.size >= map.capacity

\* The map has buckets while it holds nodes and is not loaded above the
\* load factor.
StillSound(map) ==
    /\ map.size > 0 => map.capacity > 0
    /\ 4 * map.size <= 3 * map.capacity

====
